---------------------------- MODULE Spec2Model ----------------------------
(* Model of pulumi-rollback: the rollback orchestration engine             *)
(* (pkg/rollback), the flows PreviewRollback and ExecuteRollback, the      *)
(* checkpoint retriever GetCheckpointForVersion, and the stack backend     *)
(* they drive through the RollbackStack interface.                         *)
(*                                                                         *)
(* Go values are modelled by their zero-value-preserving shapes:           *)
(*   - a pointer or a nil-able map is a sequence of length 0 (nil) or 1;   *)
(*   - an error is the chain of its messages, outermost first, <<>> = nil; *)
(*   - a deployment document (json.RawMessage) is a sequence of JSON       *)
(*     tokens, <<>> being the empty document of the zero UntypedDeployment.*)
EXTENDS Integers, Sequences, FiniteSets, TLC

(***************************************************************************)
(* Bounds                                                                  *)
(***************************************************************************)
MaxVersion == 3
MaxInvocations == 2
MaxHistoryLen == 3
MaxConvertLen == 2
MaxExternal == 1

Versions == 1..MaxVersion
\* requested versions include one that no history of the model holds
Targets == 1..(MaxVersion + 1)

(***************************************************************************)
(* Deployment documents                                                    *)
(***************************************************************************)
StringToks == {"\"key\"", "\"value\""}

DocEmptyObject == <<"{", "}">>
DocKeyValue == <<"{", "\"key\"", ":", "\"value\"", "}">>
DocInvalid == <<"{", "invalid", "}">>
DocEmpty == <<>>
DocNull == <<"null">>
DocArray == <<"[", "]">>

\* documents a backend (or a test double) hands out as committed state
StateDocs == {DocEmptyObject, DocKeyValue, DocInvalid}
\* well-formed snapshots, as a real backend records them
GoodDocs == {DocEmptyObject, DocKeyValue}

(* encoding/json syntax check over tokens: ParseValue(t, i) is the index   *)
(* just after the JSON value that starts at t[i], or 0 when there is none. *)
RECURSIVE ParseValue(_, _), ParseMembers(_, _), ParseElements(_, _)
ParseValue(t, i) ==
    IF i > Len(t) THEN 0
    ELSE IF t[i] \in StringToks \/ t[i] = "null" THEN i + 1
    ELSE IF t[i] = "{" THEN
        IF i + 1 <= Len(t) /\ t[i + 1] = "}" THEN i + 2
        ELSE ParseMembers(t, i + 1)
    ELSE IF t[i] = "[" THEN
        IF i + 1 <= Len(t) /\ t[i + 1] = "]" THEN i + 2
        ELSE ParseElements(t, i + 1)
    ELSE 0

\* members of an object from t[i] on, up to and including the closing brace
ParseMembers(t, i) ==
    IF i + 1 > Len(t) \/ t[i] \notin StringToks \/ t[i + 1] # ":" THEN 0
    ELSE LET j == ParseValue(t, i + 2) IN
         IF j = 0 \/ j > Len(t) THEN 0
         ELSE IF t[j] = "}" THEN j + 1
         ELSE IF t[j] = "," THEN ParseMembers(t, j + 1)
         ELSE 0

\* elements of an array from t[i] on, up to and including the closing bracket
ParseElements(t, i) ==
    LET j == ParseValue(t, i) IN
    IF j = 0 \/ j > Len(t) THEN 0
    ELSE IF t[j] = "]" THEN j + 1
    ELSE IF t[j] = "," THEN ParseElements(t, j + 1)
    ELSE 0

\* json.Unmarshal(data, &state) with state a map[string]interface{}:
\* the document must be one complete JSON value, and that value an object
\* (or null, which Unmarshal leaves as a nil map without error).
UnmarshalToMapOK(doc) ==
    /\ ParseValue(doc, 1) = Len(doc) + 1
    /\ doc[1] \in {"{", "null"}

\* ValidateDeployment returns nil (TRUE) or the Unmarshal error (FALSE)
ValidateDeployment(deployment) == UnmarshalToMapOK(deployment.Deployment)

UntypedDeployment(doc) == [Deployment |-> doc]
ZeroDeployment == UntypedDeployment(DocEmpty)

(***************************************************************************)
(* Histories, change summaries, errors                                     *)
(***************************************************************************)
\* auto.UpdateSummary{Version: v}, the other fields at their zero values
UpdateSummary(v) ==
    [Version |-> v, Kind |-> "", StartTime |-> "", EndTime |-> <<>>,
     Result |-> "", Message |-> "", ResourceChanges |-> <<>>]

\* the loop of VersionExistsInHistory: the scan for update.Version == version
RECURSIVE ScanVersion(_, _, _)
ScanVersion(history, version, i) ==
    IF i > Len(history) THEN FALSE
    ELSE IF history[i].Version = version THEN TRUE
    ELSE ScanVersion(history, version, i + 1)

\* a scan that compares with <= where the code compares with ==
VersionExistsInHistory_AtMost(history, version) ==
    \E i \in DOMAIN history : history[i].Version <= version

\* a check that looks at the most recent update only
VersionExistsInHistory_OnlyLatest(history, version) ==
    history # <<>> /\ history[1].Version = version

\* VersionExistsInHistory(history, version)
VersionExistsInHistory(history, version) == ScanVersion(history, version, 1)

\* histories of a stack: distinct versions, most recent first
RECURSIVE DescendingFrom(_)
DescendingFrom(top) ==
    IF top = 0 THEN {<<>>}
    ELSE DescendingFrom(top - 1)
         \cup {<<UpdateSummary(top)>> \o h : h \in DescendingFrom(top - 1)}

Histories == DescendingFrom(MaxVersion)

\* change summaries: a nil-able map from operation type to count
OpTypes == {"create", "delete"}
EmptyMap == [k \in {} |-> 0]
SummaryMaps == {EmptyMap, [create |-> 1], [create |-> 1, delete |-> 2]}
NilMap == <<>>
Summaries == {NilMap} \cup {<<m>> : m \in SummaryMaps}

\* the (kind, count) entries of a nil-able map; nil has none
Entries(s) == IF s = NilMap THEN {} ELSE {<<k, s[1][k]>> : k \in DOMAIN s[1]}

\* a conversion that allocates the result and forgets the copy loop
convertOpTypeChangeSummary_NoCopy(summary) == <<EmptyMap>>

\* a conversion that returns nil for a summary without entries
convertOpTypeChangeSummary_NilWhenEmpty(summary) ==
    IF summary = NilMap \/ DOMAIN summary[1] = {} THEN NilMap
    ELSE <<[k \in DOMAIN summary[1] |-> summary[1][k]]>>

\* convertOpTypeChangeSummary: nil gives a fresh empty map, otherwise every
\* entry is copied under the string form of its key
convertOpTypeChangeSummary(summary) ==
    IF summary = NilMap THEN <<EmptyMap>>
    ELSE <<[k \in DOMAIN summary[1] |-> summary[1][k]]>>

\* a copy that leaves the map nil when the summary has no resource changes
CopyResourceChanges_NilWhenAbsent(rc) ==
    IF rc # NilMap THEN <<[k \in DOMAIN rc[1] |-> rc[1][k]]>>
    ELSE NilMap

\* the copy loop of ExecuteRollback over *result.Summary.ResourceChanges
CopyResourceChanges(rc) ==
    IF rc # NilMap THEN <<[k \in DOMAIN rc[1] |-> rc[1][k]]>>
    ELSE <<EmptyMap>>

\* errors: the chain of messages, outermost wrapper first; <<>> is nil
NoError == <<>>
BackendError(op) == <<"backend: " \o op>>
\* fmt.Errorf(msg + ": %w", err)
Wrap(msg, err) == <<msg>> \o err
\* fmt.Errorf(msg) without a wrapped cause
NewError(msg) == <<msg>>
\* the dynamic Go type of an error value built by fmt.Errorf with %w
ErrorType(err) == IF err = NoError THEN "nil" ELSE "*fmt.wrapError"

(***************************************************************************)
(* Package history                                                         *)
(***************************************************************************)
StackName == "mystack"

\* time.Parse(time.RFC3339, s) on the timestamps of the model: the parsed
\* time as <<year, month, day, hour, minute, second>>, or the error
ZeroTime == <<1, 1, 1, 0, 0, 0>>
RFC3339Times ==
    [s \in {"2024-01-15T10:00:00Z", "2024-01-15T10:05:00Z"} |->
        IF s = "2024-01-15T10:00:00Z" THEN <<2024, 1, 15, 10, 0, 0>>
        ELSE <<2024, 1, 15, 10, 5, 0>>]
ParseRFC3339(s) ==
    IF s \in DOMAIN RFC3339Times
    THEN [ok |-> TRUE, time |-> RFC3339Times[s]]
    ELSE [ok |-> FALSE, time |-> ZeroTime]

\* a conversion that leaves ResourceChanges nil when the summary has none
ConvertUpdate_NilChanges(u) ==
    [Version |-> u.Version,
     Kind |-> u.Kind,
     Result |-> u.Result,
     Message |-> u.Message,
     StartTime |-> IF u.StartTime # "" /\ ParseRFC3339(u.StartTime).ok
                   THEN ParseRFC3339(u.StartTime).time ELSE ZeroTime,
     EndTime |-> IF u.EndTime # <<>> /\ u.EndTime[1] # ""
                    /\ ParseRFC3339(u.EndTime[1]).ok
                 THEN ParseRFC3339(u.EndTime[1]).time ELSE ZeroTime,
     ResourceChanges |->
         IF u.ResourceChanges # NilMap
         THEN <<[k \in DOMAIN u.ResourceChanges[1] |->
                    u.ResourceChanges[1][k]]>>
         ELSE NilMap]

\* the body of the loop of ConvertUpdates: one UpdateInfo from one summary;
\* a map is <<m>> and a nil map NilMap
ConvertUpdate(u) ==
    [Version |-> u.Version,
     Kind |-> u.Kind,
     Result |-> u.Result,
     Message |-> u.Message,
     StartTime |-> IF u.StartTime # "" /\ ParseRFC3339(u.StartTime).ok
                   THEN ParseRFC3339(u.StartTime).time ELSE ZeroTime,
     EndTime |-> IF u.EndTime # <<>> /\ u.EndTime[1] # ""
                    /\ ParseRFC3339(u.EndTime[1]).ok
                 THEN ParseRFC3339(u.EndTime[1]).time ELSE ZeroTime,
     ResourceChanges |->
         IF u.ResourceChanges # NilMap
         THEN <<[k \in DOMAIN u.ResourceChanges[1] |->
                    u.ResourceChanges[1][k]]>>
         ELSE <<EmptyMap>>]

\* a conversion that returns the updates in the opposite order
ConvertUpdates_Reversed(summaries) ==
    [i \in DOMAIN summaries |->
        ConvertUpdate(summaries[Len(summaries) + 1 - i])]

\* ConvertUpdates: the summaries converted one by one, in order
ConvertUpdates(summaries) ==
    [i \in DOMAIN summaries |-> ConvertUpdate(summaries[i])]

\* the loop of FindUpdateByVersion from index i on: a pointer to (a copy
\* of) the first update with the version, or the not-found error
RECURSIVE FindFrom(_, _, _)
FindFrom(updates, version, i) ==
    IF i > Len(updates)
    THEN [update |-> <<>>,
          err |-> NewError("version " \o ToString(version)
                           \o " not found in stack history")]
    ELSE IF updates[i].Version = version
    THEN [update |-> <<updates[i]>>, err |-> NoError]
    ELSE FindFrom(updates, version, i + 1)

\* a search that starts at the second update
FindUpdateByVersion_SkipsFirst(updates, version) == FindFrom(updates, version, 2)

\* FindUpdateByVersion(history, version)
FindUpdateByVersion(updates, version) == FindFrom(updates, version, 1)

\* a latest version taken from the end of the history
GetLatestVersionFromHistory_Last(updates, stackName) ==
    IF Len(updates) = 0
    THEN [version |-> 0,
          err |-> NewError("no deployment history found for stack "
                           \o stackName)]
    ELSE [version |-> updates[Len(updates)].Version, err |-> NoError]

\* GetLatestVersionFromHistory(history, stackName)
GetLatestVersionFromHistory(updates, stackName) ==
    IF Len(updates) = 0
    THEN [version |-> 0,
          err |-> NewError("no deployment history found for stack "
                           \o stackName)]
    ELSE [version |-> updates[1].Version, err |-> NoError]

(***************************************************************************)
(* State                                                                   *)
(***************************************************************************)
VARIABLES
    committed,        \* backend: the stack's committed state document
    live,             \* backend: the state of the live infrastructure
    hist,             \* backend: the stack's update history, newest first
    recorded,         \* backend: the checkpoint stored with each version
    flow,             \* "idle", "preview" (PreviewRollback), "execute"
    pc,               \* the backend call the running flow makes next
    opts,             \* RollbackOptions of the running invocation
    currentState,     \* PreviewRollback: currentState
    history,          \* GetCheckpointForVersion: history
    targetCheckpoint, \* targetCheckpoint
    previewResult,    \* PreviewRollback: result.ChangeSummary
    previewErr,       \* PreviewRollback: err of stack.Preview
    upResult,         \* ExecuteRollback: result.Summary.ResourceChanges
    calls,            \* backend calls of this invocation, in order
    out,              \* opts.Output: the lines written so far
    ret,              \* the (result, error) pair returned to the caller
    before,           \* the backend's state when the flow or command started
    invocations,      \* flows and commands invoked so far
    ctxDone,          \* ctx: the caller's cancellation signal has fired
    cmd,              \* the command running: "none", "to" or "preview"
    cmdPc,            \* the step the command makes next
    flags,            \* the command's --version, --yes and --stack flags
                      \* and the PULUMI_STACK of its environment
    response,         \* runRollback: response, the answer to the prompt
    update,           \* runRollback, runPreview: update
    latest,           \* runRollback, runPreview: latest
    cmdErr,           \* the error the command's RunE returned
    stdout,           \* what the command printed, one entry per message
    cmdCalls,         \* backend calls made through the history package
    fnIn,             \* inputs of the functions applied on their own
    fnOut             \* their results, by function name

backendVars == <<committed, live, hist, recorded>>
localVars == <<currentState, history, targetCheckpoint, previewResult, previewErr>>
vars == <<committed, live, hist, recorded, flow, pc, opts, currentState,
          history, targetCheckpoint, previewResult, previewErr, upResult,
          calls, out,
          ret, before, invocations, ctxDone, cmd, cmdPc, flags, response,
          update, latest, cmdErr, stdout, cmdCalls, fnIn, fnOut>>
cmdVars == <<cmd, cmdPc, flags, response, update, latest, cmdErr, stdout,
             cmdCalls>>
fnVars == <<fnIn, fnOut>>

\* opts.Operator is nil or the operator of a test; DefaultOperator is the
\* package's operator, DefaultSelector that of package history
NilOperator == "nil"
MockOperator == "MockOperator"
DefaultOperator == "DefaultOperator"
DefaultSelector == "DefaultSelector"
Operators == {NilOperator, MockOperator}

\* opts.Operator after "if opts.Operator == nil"
UsedOperator ==
    IF opts.Operator = NilOperator THEN DefaultOperator ELSE opts.Operator

\* the stack handle an operator's SelectStack returns
StackOf(operator) == [stackOf |-> operator]

\* a handle selected anew through the package's operator
StackHandle_Default == StackOf(DefaultOperator)

\* stack: the handle the SelectStack call of this invocation returned
StackHandle == StackOf(calls[1].on)

\* the record of a backend call: SelectStack on the operator, every other
\* call on the stack handle
Call(op, ok, arg) ==
    [op |-> op, ok |-> ok, arg |-> arg,
     on |-> IF op = "select" THEN UsedOperator ELSE StackHandle]
NoArg == DocEmpty

RollbackResult(msg, changes) ==
    [Success |-> TRUE, Message |-> msg, ResourceChanges |-> changes]

NoReturn == [result |-> <<>>, err |-> NoError]
\* return &RollbackResult{...}, nil
ReturnResult(r) == [result |-> <<r>>, err |-> NoError]
\* return nil, err
ReturnError(e) == [result |-> <<>>, err |-> e]

(***************************************************************************)
(* Stack backend behind the RollbackStack interface.  A call that reports  *)
(* an error may or may not have taken effect; a failed import leaves the   *)
(* committed state indeterminate.                                          *)
(***************************************************************************)
\* Export: the committed state
StackExport == UntypedDeployment(committed)

\* the record of a stack.Export(ctx) call and, when it succeeded, the
\* document it returned
ExportCall(ok) ==
    [op |-> "export", ok |-> ok, arg |-> NoArg, on |-> StackHandle,
     res |-> IF ok THEN StackExport.Deployment ELSE NoArg]

\* Import: replaces the committed state
StackImport(state, ok) == IF ok THEN {state.Deployment} ELSE StateDocs

\* Refresh: reconciles the committed state to the live infrastructure
StackRefresh(ok) == IF ok THEN {live} ELSE {committed, live}

\* Up: changes the live infrastructure to match the committed state
StackUp(ok) == IF ok THEN {committed} ELSE {live, committed}

\* History(pageSize, page): all update summaries when pageSize is 0, else
\* the page of that size (pages count from 1)
StackHistoryPage(pageSize, page) ==
    IF pageSize = 0 THEN hist
    ELSE LET p == IF page < 1 THEN 1 ELSE page
             first == (p - 1) * pageSize + 1
             last == IF p * pageSize < Len(hist) THEN p * pageSize
                     ELSE Len(hist)
         IN SubSeq(hist, first, last)

\* History(0, 0): all update summaries
StackHistory == StackHistoryPage(0, 0)

\* the record of a History(ctx, 0, 0) call on a handle: its arguments and,
\* when it succeeded, the summaries it returned
HistoryCallOn(handle, ok) ==
    [op |-> "history", ok |-> ok, arg |-> [pageSize |-> 0, page |-> 0],
     on |-> handle, res |-> IF ok THEN StackHistory ELSE <<>>]

\* stack.History(ctx, 0, 0) of GetCheckpointForVersion
HistoryCall(ok) == HistoryCallOn(StackHandle, ok)

\* no command is running
CmdInit ==
    /\ cmd = "none"
    /\ cmdPc = "idle"
    /\ flags = [version |-> 0, yes |-> FALSE, stack |-> "", env |-> ""]
    /\ response = <<>>
    /\ update = <<>>
    /\ latest = 0
    /\ cmdErr = NoError
    /\ stdout = <<>>
    /\ cmdCalls = <<>>

\* no function is applied on its own
FnInit ==
    /\ fnIn = [history |-> <<>>, version |-> 0, deployment |-> ZeroDeployment]
    /\ fnOut = <<>>

\* no flow is running
FlowInit ==
    /\ flow = "idle"
    /\ pc = "idle"
    /\ opts = [TargetVersion |-> 1, Operator |-> NilOperator]
    /\ currentState = ZeroDeployment
    /\ history = <<>>
    /\ targetCheckpoint = ZeroDeployment
    /\ previewResult = NilMap
    /\ previewErr = NoError
    /\ upResult = NilMap
    /\ calls = <<>>
    /\ out = <<>>
    /\ ret = NoReturn
    /\ invocations = 0
    /\ ctxDone = FALSE

\* the checkpoints recorded with the versions are one document for all
\* versions: no operation reads them, GetCheckpointForVersion exports the
\* stack's current state
Init ==
    /\ committed \in StateDocs
    /\ live \in GoodDocs
    /\ hist \in Histories
    /\ recorded \in {[v \in Versions |-> d] : d \in GoodDocs}
    /\ before = [committed |-> committed, live |-> live, hist |-> hist]
    /\ FlowInit
    /\ CmdInit
    /\ FnInit

\* the caller invokes PreviewRollback or ExecuteRollback with a target
Invoke(f, v) ==
    /\ flow = "idle"
    /\ invocations < MaxInvocations
    /\ flow' = f
    /\ pc' = "select"
    /\ opts' \in {[TargetVersion |-> v, Operator |-> o] : o \in Operators}
    /\ currentState' = ZeroDeployment
    /\ history' = <<>>
    /\ targetCheckpoint' = ZeroDeployment
    /\ previewResult' = NilMap
    /\ previewErr' = NoError
    /\ upResult' = NilMap
    /\ calls' = <<>>
    /\ out' = <<>>
    /\ ret' = NoReturn
    /\ before' = [committed |-> committed, live |-> live,
                  hist |-> hist]
    /\ invocations' = invocations + 1
    /\ ctxDone' = FALSE
    /\ UNCHANGED <<backendVars, cmdVars, fnVars>>

\* the flow has returned; the caller may invoke another
Finish ==
    /\ pc = "done"
    /\ flow' = "idle"
    /\ pc' = "idle"
    /\ UNCHANGED <<backendVars, localVars, opts, calls, out, ret, before,
                   invocations, ctxDone, upResult,
                   cmdVars, fnVars>>

(***************************************************************************)
(* Steps shared by the two flows                                           *)
(***************************************************************************)
VersionText == ToString(opts.TargetVersion)
CheckpointMsg == "failed to get checkpoint for version " \o VersionText

\* a return that never reaches the caller
Return_Blocks(r) ==
    /\ ret' = r
    /\ pc' = "blocked"

\* return from the running flow
Return(r) ==
    /\ ret' = r
    /\ pc' = "done"

\* a selection whose error is not checked
SelectStack_ErrorIgnored(ok, next) ==
    /\ pc = "select"
    /\ calls' = Append(calls, Call("select", ok, NoArg))
    /\ pc' = next
    /\ ret' = ret
    /\ UNCHANGED <<backendVars, localVars, flow, opts, out, before,
                   invocations, ctxDone, upResult,
                   cmdVars, fnVars>>

\* opts.Operator.SelectStack(ctx, opts.StackName, opts.ProjectPath)
SelectStack(ok, next) ==
    /\ pc = "select"
    /\ calls' = Append(calls, Call("select", ok, NoArg))
    /\ IF ok
       THEN /\ pc' = next
            /\ ret' = ret
       ELSE Return(ReturnError(Wrap("failed to select stack",
                                    BackendError("select"))))
    /\ UNCHANGED <<backendVars, localVars, flow, opts, out, before,
                   invocations, ctxDone, upResult,
                   cmdVars, fnVars>>

\* a history fetch that is tried again after a failure
CheckpointHistory_Retried(ok) ==
    /\ pc = "history"
    /\ calls' = Append(calls, HistoryCall(ok))
    /\ IF ~ok
       THEN /\ IF Len(calls) < 4
               THEN pc' = pc /\ ret' = ret
               ELSE Return(ReturnError(Wrap(CheckpointMsg,
                        Wrap("failed to get history", BackendError("history")))))
            /\ history' = history
       ELSE /\ history' = StackHistory
            /\ IF ~VersionExistsInHistory(StackHistory, opts.TargetVersion)
               THEN Return(ReturnError(Wrap(CheckpointMsg,
                        NewError("version " \o VersionText
                                 \o " not found in history"))))
               ELSE /\ pc' = "checkpoint_export"
                    /\ ret' = ret
    /\ UNCHANGED <<backendVars, currentState, targetCheckpoint, previewResult,
                   previewErr, flow, opts, out, before, invocations, ctxDone,
                   upResult, cmdVars, fnVars>>

\* a retrieval that reuses the history the command fetched last, when there
\* is one, instead of fetching it
CheckpointHistory_Cached(ok) ==
    /\ pc = "history"
    /\ LET cached == {i \in DOMAIN cmdCalls :
                         cmdCalls[i].op = "history" /\ cmdCalls[i].ok}
           fetched == IF cached = {} THEN StackHistory
                      ELSE cmdCalls[CHOOSE i \in cached :
                                        \A j \in cached : j <= i].res
       IN /\ calls' = IF cached = {} THEN Append(calls, HistoryCall(ok))
                      ELSE calls
          /\ IF ~ok /\ cached = {}
             THEN /\ Return(ReturnError(Wrap(CheckpointMsg,
                        Wrap("failed to get history", BackendError("history")))))
                  /\ history' = history
             ELSE /\ history' = fetched
                  /\ IF ~VersionExistsInHistory(fetched, opts.TargetVersion)
                     THEN Return(ReturnError(Wrap(CheckpointMsg,
                              NewError("version " \o VersionText
                                       \o " not found in history"))))
                     ELSE /\ pc' = "checkpoint_export"
                          /\ ret' = ret
    /\ UNCHANGED <<backendVars, currentState, targetCheckpoint, previewResult,
                   previewErr, flow, opts, out, before, invocations, ctxDone,
                   upResult, cmdVars, fnVars>>

\* GetCheckpointForVersion, first half: stack.History(ctx, 0, 0) and the
\* VersionExistsInHistory check
CheckpointHistory(ok) ==
    /\ pc = "history"
    /\ calls' = Append(calls, HistoryCall(ok))
    /\ IF ~ok
       THEN /\ Return(ReturnError(Wrap(CheckpointMsg,
                        Wrap("failed to get history", BackendError("history")))))
            /\ history' = history
       ELSE /\ history' = StackHistory
            /\ IF ~VersionExistsInHistory(StackHistory, opts.TargetVersion)
               THEN Return(ReturnError(Wrap(CheckpointMsg,
                        NewError("version " \o VersionText
                                 \o " not found in history"))))
               ELSE /\ pc' = "checkpoint_export"
                    /\ ret' = ret
    /\ UNCHANGED <<backendVars, currentState, targetCheckpoint, previewResult,
                   previewErr, flow, opts, out, before, invocations, ctxDone, upResult,
                   cmdVars, fnVars>>

\* the deployment GetCheckpointForVersion hands back for a version: the
\* export of the stack as it is now
CheckpointDeployment(version) == StackExport

\* GetCheckpointForVersion, second half: stack.Export(ctx) and
\* ValidateDeployment
CheckpointExport(ok) ==
    /\ pc = "checkpoint_export"
    /\ calls' = Append(calls, ExportCall(ok))
    /\ IF ~ok
       THEN /\ Return(ReturnError(Wrap(CheckpointMsg,
                        Wrap("failed to export deployment",
                             BackendError("export")))))
            /\ targetCheckpoint' = targetCheckpoint
       ELSE LET deployment == CheckpointDeployment(opts.TargetVersion) IN
            IF ~ValidateDeployment(deployment)
            THEN /\ Return(ReturnError(Wrap(CheckpointMsg,
                        Wrap("failed to parse deployment",
                             NewError("json: cannot unmarshal")))))
                 /\ targetCheckpoint' = targetCheckpoint
            ELSE /\ targetCheckpoint' = deployment
                 /\ pc' = "import"
                 /\ ret' = ret
    /\ UNCHANGED <<backendVars, currentState, history, previewResult,
                   previewErr, flow, opts, out, before, invocations, ctxDone, upResult,
                   cmdVars, fnVars>>

\* stack.Import(ctx, targetCheckpoint)
ImportTarget(ok, next) ==
    /\ pc = "import"
    /\ calls' = Append(calls, Call("import", ok, targetCheckpoint.Deployment))
    /\ committed' \in StackImport(targetCheckpoint, ok)
    /\ IF ok
       THEN /\ pc' = next
            /\ ret' = ret
       ELSE Return(ReturnError(Wrap("failed to import target state",
                                    BackendError("import"))))
    /\ UNCHANGED <<live, hist, recorded, localVars, flow, opts, out, before,
                   invocations, ctxDone, upResult,
                   cmdVars, fnVars>>

(***************************************************************************)
(* PreviewRollback                                                         *)
(***************************************************************************)
PreviewSelectStack(ok) ==
    /\ flow = "preview"
    /\ SelectStack(ok, "export")

\* an export whose result is not kept for the restore
PreviewExportCurrent_NotKept(ok) ==
    /\ flow = "preview"
    /\ pc = "export"
    /\ calls' = Append(calls, ExportCall(ok))
    /\ currentState' = currentState
    /\ IF ok
       THEN /\ pc' = "history"
            /\ ret' = ret
       ELSE Return(ReturnError(Wrap("failed to export current state",
                                    BackendError("export"))))
    /\ UNCHANGED <<backendVars, history, targetCheckpoint, previewResult,
                   previewErr, flow, opts, out, before, invocations, ctxDone, upResult,
                   cmdVars, fnVars>>

\* currentState, err := stack.Export(ctx)
PreviewExportCurrent(ok) ==
    /\ flow = "preview"
    /\ pc = "export"
    /\ calls' = Append(calls, ExportCall(ok))
    /\ IF ok
       THEN /\ currentState' = StackExport
            /\ pc' = "history"
            /\ ret' = ret
       ELSE /\ currentState' = currentState
            /\ Return(ReturnError(Wrap("failed to export current state",
                                       BackendError("export"))))
    /\ UNCHANGED <<backendVars, history, targetCheckpoint, previewResult,
                   previewErr, flow, opts, out, before, invocations, ctxDone, upResult,
                   cmdVars, fnVars>>

PreviewImportTarget(ok) ==
    /\ flow = "preview"
    /\ ImportTarget(ok, "preview")

\* a preview step that runs the update instead of the preview
PreviewRunPreview_RunsUp(ok, summary) ==
    /\ flow = "preview"
    /\ pc = "preview"
    /\ calls' = Append(calls, Call("up", ok, NoArg))
    /\ live' \in StackUp(ok)
    /\ IF ok
       THEN /\ previewResult' = summary
            /\ previewErr' = NoError
       ELSE /\ previewResult' = NilMap
            /\ previewErr' = BackendError("up")
    /\ pc' = "restore"
    /\ UNCHANGED <<committed, hist, recorded, currentState, history,
                   targetCheckpoint, flow, opts, out, ret, before,
                   invocations, ctxDone, upResult, cmdVars, fnVars>>

\* a preview whose error is returned before the restore
PreviewRunPreview_ReturnsOnError(ok, summary) ==
    /\ flow = "preview"
    /\ pc = "preview"
    /\ calls' = Append(calls, Call("preview", ok, NoArg))
    /\ IF ok
       THEN /\ previewResult' = summary
            /\ previewErr' = NoError
            /\ pc' = "restore"
            /\ ret' = ret
       ELSE /\ previewResult' = NilMap
            /\ previewErr' = BackendError("preview")
            /\ Return(ReturnError(Wrap("preview failed",
                                       BackendError("preview"))))
    /\ UNCHANGED <<backendVars, currentState, history, targetCheckpoint,
                   flow, opts, out, before, invocations, ctxDone, upResult,
                   cmdVars, fnVars>>

\* result, err := stack.Preview(ctx, previewOpts...): a diff, no mutation
PreviewRunPreview(ok, summary) ==
    /\ flow = "preview"
    /\ pc = "preview"
    /\ calls' = Append(calls, Call("preview", ok, NoArg))
    /\ IF ok
       THEN /\ previewResult' = summary
            /\ previewErr' = NoError
       ELSE /\ previewResult' = NilMap
            /\ previewErr' = BackendError("preview")
    /\ pc' = "restore"
    /\ UNCHANGED <<backendVars, currentState, history, targetCheckpoint,
                   flow, opts, out, ret, before, invocations, ctxDone, upResult,
                   cmdVars, fnVars>>

\* stack.Preview(ctx, ...) during which the caller cancels ctx: the call
\* returns an error and the flow goes on as after any failed preview
PreviewCancelled ==
    /\ flow = "preview"
    /\ pc = "preview"
    /\ ~ctxDone
    /\ ctxDone' = TRUE
    /\ calls' = Append(calls, Call("preview", FALSE, NoArg))
    /\ previewResult' = NilMap
    /\ previewErr' = BackendError("preview")
    /\ pc' = "restore"
    /\ UNCHANGED <<backendVars, currentState, history, targetCheckpoint,
                   flow, opts, out, ret, before, invocations, upResult,
                   cmdVars, fnVars>>

\* the result PreviewRollback returns once the restore was attempted
PreviewReturn(err, summary) ==
    IF err # NoError
    THEN ReturnError(Wrap("preview failed", err))
    ELSE ReturnResult(RollbackResult(
             "Preview of rollback to version " \o VersionText \o " completed",
             convertOpTypeChangeSummary(summary)))

\* a restore whose failure is returned as the call's error
PreviewRestoreCurrent_ReturnsRestoreError(ok) ==
    /\ flow = "preview"
    /\ pc = "restore"
    /\ calls' = Append(calls, Call("import", ok, currentState.Deployment))
    /\ committed' \in StackImport(currentState, ok)
    /\ out' = out
    /\ IF ok
       THEN Return(PreviewReturn(previewErr, previewResult))
       ELSE Return(ReturnError(Wrap("failed to restore current state",
                                    BackendError("import"))))
    /\ UNCHANGED <<live, hist, recorded, localVars, flow, opts, before,
                   invocations, ctxDone, upResult,
                   cmdVars, fnVars>>

\* a restore that is left out once ctx is cancelled
PreviewRestoreCurrent_SkippedWhenCancelled(ok) ==
    /\ flow = "preview"
    /\ pc = "restore"
    /\ calls' = IF ctxDone THEN calls
                ELSE Append(calls, Call("import", ok, currentState.Deployment))
    /\ committed' \in IF ctxDone THEN {committed}
                      ELSE StackImport(currentState, ok)
    /\ out' = IF ok \/ ctxDone THEN out
              ELSE Append(out, "Warning: failed to restore current state: "
                               \o BackendError("import")[1])
    /\ Return(PreviewReturn(previewErr, previewResult))
    /\ UNCHANGED <<live, hist, recorded, localVars, flow, opts, before,
                   invocations, ctxDone, upResult, cmdVars, fnVars>>

\* a restore that imports the target checkpoint a second time
PreviewRestoreCurrent_ImportsTarget(ok) ==
    /\ flow = "preview"
    /\ pc = "restore"
    /\ calls' = Append(calls, Call("import", ok, targetCheckpoint.Deployment))
    /\ committed' \in StackImport(targetCheckpoint, ok)
    /\ out' = IF ok THEN out
              ELSE Append(out, "Warning: failed to restore current state: "
                               \o BackendError("import")[1])
    /\ Return(PreviewReturn(previewErr, previewResult))
    /\ UNCHANGED <<live, hist, recorded, localVars, flow, opts, before,
                   invocations, ctxDone, upResult,
                   cmdVars, fnVars>>

\* restoreErr := stack.Import(ctx, currentState), the warning, the return
PreviewRestoreCurrent(ok) ==
    /\ flow = "preview"
    /\ pc = "restore"
    /\ calls' = Append(calls, Call("import", ok, currentState.Deployment))
    /\ committed' \in StackImport(currentState, ok)
    /\ out' = IF ok THEN out
              ELSE Append(out, "Warning: failed to restore current state: "
                               \o BackendError("import")[1])
    /\ Return(PreviewReturn(previewErr, previewResult))
    /\ UNCHANGED <<live, hist, recorded, localVars, flow, opts, before,
                   invocations, ctxDone, upResult,
                   cmdVars, fnVars>>

(***************************************************************************)
(* ExecuteRollback                                                         *)
(***************************************************************************)
ExecuteSelectStack(ok) ==
    /\ flow = "execute"
    /\ SelectStack(ok, "history")

\* an import after which the refresh is left out
ExecuteImportTarget_SkipsRefresh(ok) ==
    /\ flow = "execute"
    /\ ImportTarget(ok, "apply")

ExecuteImportTarget(ok) ==
    /\ flow = "execute"
    /\ ImportTarget(ok, "refresh")

\* a refresh whose error is returned without the backend's own error
ExecuteRefresh_ErrorNotWrapped(ok) ==
    /\ flow = "execute"
    /\ pc = "refresh"
    /\ out' = Append(out, "Refreshing stack to reconcile with target state...")
    /\ calls' = Append(calls, Call("refresh", ok, NoArg))
    /\ committed' \in StackRefresh(ok)
    /\ IF ok
       THEN /\ pc' = "apply"
            /\ ret' = ret
       ELSE Return(ReturnError(NewError("refresh failed")))
    /\ UNCHANGED <<live, hist, recorded, localVars, flow, opts, before,
                   invocations, ctxDone, upResult,
                   cmdVars, fnVars>>

\* _, err = stack.Refresh(ctx)
ExecuteRefresh(ok) ==
    /\ flow = "execute"
    /\ pc = "refresh"
    /\ out' = Append(out, "Refreshing stack to reconcile with target state...")
    /\ calls' = Append(calls, Call("refresh", ok, NoArg))
    /\ committed' \in StackRefresh(ok)
    /\ IF ok
       THEN /\ pc' = "apply"
            /\ ret' = ret
       ELSE Return(ReturnError(Wrap("refresh failed", BackendError("refresh"))))
    /\ UNCHANGED <<live, hist, recorded, localVars, flow, opts, before,
                   invocations, ctxDone, upResult,
                   cmdVars, fnVars>>

\* result, err := stack.Up(ctx, upOpts...) and the returned result
ExecuteApply(ok, resourceChanges) ==
    /\ flow = "execute"
    /\ pc = "apply"
    /\ out' = Append(out, "Applying rollback changes...")
    /\ calls' = Append(calls, Call("up", ok, NoArg))
    /\ live' \in StackUp(ok)
    /\ IF ok
       THEN /\ upResult' = resourceChanges
            /\ Return(ReturnResult(RollbackResult(
                "Successfully rolled back to version " \o VersionText,
                CopyResourceChanges(resourceChanges))))
       ELSE /\ upResult' = NilMap
            /\ Return(ReturnError(Wrap("rollback failed", BackendError("up"))))
    /\ UNCHANGED <<committed, hist, recorded, localVars, flow, opts, before,
                   invocations, ctxDone, cmdVars, fnVars>>

Next ==
    \/ \E f \in {"preview", "execute"}, v \in Targets : Invoke(f, v)
    \/ \E ok \in BOOLEAN : PreviewSelectStack(ok)
    \/ \E ok \in BOOLEAN : PreviewExportCurrent(ok)
    \/ \E ok \in BOOLEAN : CheckpointHistory(ok)
    \/ \E ok \in BOOLEAN : CheckpointExport(ok)
    \/ \E ok \in BOOLEAN : PreviewImportTarget(ok)
    \/ \E ok \in BOOLEAN, s \in Summaries : PreviewRunPreview(ok, s)
    \/ PreviewCancelled
    \/ \E ok \in BOOLEAN : PreviewRestoreCurrent(ok)
    \/ \E ok \in BOOLEAN : ExecuteSelectStack(ok)
    \/ \E ok \in BOOLEAN : ExecuteImportTarget(ok)
    \/ \E ok \in BOOLEAN : ExecuteRefresh(ok)
    \/ \E ok \in BOOLEAN, rc \in Summaries : ExecuteApply(ok, rc)
    \/ Finish

Spec == Init /\ [][Next]_vars

\* the next backend call of the running flow and what the flow does with
\* its result
FlowStep ==
    \/ \E ok \in BOOLEAN : PreviewSelectStack(ok)
    \/ \E ok \in BOOLEAN : PreviewExportCurrent(ok)
    \/ \E ok \in BOOLEAN : CheckpointHistory(ok)
    \/ \E ok \in BOOLEAN : CheckpointExport(ok)
    \/ \E ok \in BOOLEAN : PreviewImportTarget(ok)
    \/ \E ok \in BOOLEAN, s \in Summaries : PreviewRunPreview(ok, s)
    \/ PreviewCancelled
    \/ \E ok \in BOOLEAN : PreviewRestoreCurrent(ok)
    \/ \E ok \in BOOLEAN : ExecuteSelectStack(ok)
    \/ \E ok \in BOOLEAN : ExecuteImportTarget(ok)
    \/ \E ok \in BOOLEAN : ExecuteRefresh(ok)
    \/ \E ok \in BOOLEAN, rc \in Summaries : ExecuteApply(ok, rc)

\* the flows when every backend call returns: the code is synchronous, so
\* a flow that has a next call makes it
InitLive ==
    /\ Init
    /\ recorded = [v \in Versions |-> DocEmptyObject]
SpecLive == InitLive /\ [][Next]_vars /\ WF_vars(FlowStep)

(***************************************************************************)
(* The functions of the two packages applied on their own, to inputs a     *)
(* caller or a test double can hand them: histories in any order and with  *)
(* repeated versions, versions that no update has, documents of any form.  *)
(***************************************************************************)
FnVersions == {1, 2, 5}
FnKinds == {"create", "update"}
FnQueries == {-1, 0, 1, 2, 5, 99}
DocNested == <<"{", "\"key\"", ":", "[", "null", ",", "\"value\"", "]", "}">>
DocTruncated == <<"{", "\"key\"", ":">>
FnDocs == {DocEmptyObject, DocKeyValue, DocInvalid, DocEmpty, DocNull,
           DocArray, DocNested, DocTruncated}
FnSummaries ==
    {[UpdateSummary(v) EXCEPT !.Kind = k] : v \in FnVersions, k \in FnKinds}
SeqsUpTo(S, n) == UNION {[1..m -> S] : m \in 0..n}

FnInputs ==
    {[summaries |-> h, history |-> ConvertUpdates(h), version |-> v,
      deployment |-> UntypedDeployment(d)] :
        h \in SeqsUpTo(FnSummaries, MaxHistoryLen), v \in FnQueries,
        d \in FnDocs}

\* summaries with every form of timestamp and of resource changes
ConvertSummaries ==
    {[Version |-> l.Version, Kind |-> l.Kind, Result |-> l.Result,
      Message |-> l.Message, StartTime |-> st, EndTime |-> et,
      ResourceChanges |-> rc] :
        l \in {[Version |-> 2, Kind |-> "destroy", Result |-> "failed",
                Message |-> ""],
               [Version |-> 1, Kind |-> "update", Result |-> "succeeded",
                Message |-> "first"]},
        st \in {"", "2024-01-15T10:00:00Z", "invalid-date"},
        et \in {<<>>, <<"">>, <<"2024-01-15T10:05:00Z">>, <<"invalid-date">>},
        rc \in {NilMap, <<[create |-> 1, delete |-> 2]>>}}

\* inputs of ConvertUpdates alone
ConvertInputs ==
    {[summaries |-> h, history |-> <<>>, version |-> 0,
      deployment |-> ZeroDeployment] :
        h \in SeqsUpTo(ConvertSummaries, MaxConvertLen)}

InitFunctions ==
    /\ committed = DocEmptyObject
    /\ live = DocEmptyObject
    /\ hist = <<>>
    /\ recorded = [v \in Versions |-> DocEmptyObject]
    /\ before = [committed |-> committed, live |-> live, hist |-> hist]
    /\ FlowInit
    /\ CmdInit
    /\ fnIn \in FnInputs \cup ConvertInputs
    /\ fnOut = <<>>

\* one function is applied to the inputs and its result kept
Applied(fn, result) ==
    /\ fnOut = <<>>
    /\ fnOut' = <<[fn |-> fn, result |-> result]>>
    /\ UNCHANGED <<backendVars, localVars, flow, pc, opts, calls, out, ret,
                   before, invocations, ctxDone, upResult, cmdVars, fnIn>>

ApplyFindUpdateByVersion ==
    Applied("FindUpdateByVersion",
            FindUpdateByVersion(fnIn.history, fnIn.version))

ApplyVersionExistsInHistory ==
    Applied("VersionExistsInHistory",
            VersionExistsInHistory(fnIn.summaries, fnIn.version))

ApplyGetLatestVersionFromHistory ==
    Applied("GetLatestVersionFromHistory",
            GetLatestVersionFromHistory(fnIn.history, StackName))

ApplyValidateDeployment ==
    Applied("ValidateDeployment", ValidateDeployment(fnIn.deployment))

ApplyConvertUpdates ==
    Applied("ConvertUpdates", ConvertUpdates(fnIn.summaries))

NextFunctions ==
    \/ ApplyConvertUpdates
    \/ ApplyFindUpdateByVersion
    \/ ApplyVersionExistsInHistory
    \/ ApplyGetLatestVersionFromHistory
    \/ ApplyValidateDeployment

SpecFunctions == InitFunctions /\ [][NextFunctions]_vars

(***************************************************************************)
(* Commands "to" (runRollback) and "preview" (runPreview).  A command      *)
(* resolves the version through package history, compares it with the      *)
(* latest version and only then enters ExecuteRollback or PreviewRollback. *)
(* opts.Output is os.Stdout; out keeps what the flow wrote to it and       *)
(* stdout what the command printed itself.                                 *)
(***************************************************************************)
flowVars == <<flow, pc, opts, localVars, upResult, calls, out, ret, ctxDone>>

\* --version values given on the command line
CmdTargets == Targets \cup FnVersions

\* histories a stack selector of a test can return: distinct versions in
\* any order
DoubleHistories ==
    {h \in SeqsUpTo({UpdateSummary(v) : v \in FnVersions}, MaxHistoryLen) :
        \A i, j \in DOMAIN h : i # j => h[i].Version # h[j].Version}

\* characters typed at the confirmation prompt, as read from os.Stdin
StdinInputs ==
    {<<"y", "\n">>, <<"Y", "E", "S", "\n">>,
     <<" ", "y", "e", "s", "\t", "\n">>, <<"n", "\n">>, <<"\n">>, <<"y">>}

\* reader.ReadString(delim): the input up to and including the first delim,
\* or all of it and io.EOF
ReadString(input, delim) ==
    IF \E i \in DOMAIN input : input[i] = delim
    THEN LET first == CHOOSE i \in DOMAIN input :
                          /\ input[i] = delim
                          /\ \A j \in 1..(i - 1) : input[j] # delim
         IN [line |-> SubSeq(input, 1, first), err |-> NoError]
    ELSE [line |-> input, err |-> NewError("EOF")]

\* strings.ToLower on the characters of the model
ToLower(s) ==
    [i \in DOMAIN s |->
        CASE s[i] = "Y" -> "y"
          [] s[i] = "E" -> "e"
          [] s[i] = "S" -> "s"
          [] OTHER -> s[i]]

WhiteSpace == {" ", "\t", "\n"}

RECURSIVE TrimLeft(_)
TrimLeft(s) ==
    IF s # <<>> /\ s[1] \in WhiteSpace THEN TrimLeft(Tail(s)) ELSE s

RECURSIVE TrimRight(_)
TrimRight(s) ==
    IF s # <<>> /\ s[Len(s)] \in WhiteSpace
    THEN TrimRight(SubSeq(s, 1, Len(s) - 1)) ELSE s

\* strings.TrimSpace
TrimSpace(s) == TrimRight(TrimLeft(s))

\* a check that takes every answer for a confirmation
Confirmed_AnyAnswer(answer) == TRUE

\* response != "y" && response != "yes", negated
Confirmed(answer) == answer = <<"y">> \/ answer = <<"y", "e", "s">>

\* n printed with at least w digits
RECURSIVE Padded(_, _)
Padded(n, w) ==
    IF w <= 1 \/ n >= 10 ^ (w - 1) THEN ToString(n)
    ELSE "0" \o Padded(n, w - 1)

\* formatTime: "N/A" for the zero time, else t.Format("2006-01-02 15:04")
formatTime(t) ==
    IF t = ZeroTime THEN "N/A"
    ELSE Padded(t[1], 4) \o "-" \o Padded(t[2], 2) \o "-" \o Padded(t[3], 2)
         \o " " \o Padded(t[4], 2) \o ":" \o Padded(t[5], 2)

\* the values of the --stack flag and of PULUMI_STACK; "" is the flag's
\* default and the unset variable
StackFlags == {"", StackName}
EnvStacks == {"", "envstack"}

\* getStackName: the flag if it is given, else PULUMI_STACK if it is set,
\* else an error
getStackName(stackFlag, envStack) ==
    IF stackFlag # "" THEN [name |-> stackFlag, err |-> NoError]
    ELSE IF envStack # "" THEN [name |-> envStack, err |-> NoError]
    ELSE [name |-> "",
          err |-> NewError("stack name is required: use --stack flag or "
                           \o "set PULUMI_STACK environment variable")]

\* stack, err := getStackName() of the running command
stack == getStackName(flags.stack, flags.env).name

\* a comparison that never finds the target to be the current version
IsCurrentVersion_Never(version, latestVersion) == FALSE

\* a comparison that is made for the "to" command only
IsCurrentVersion_ToOnly(version, latestVersion) ==
    cmd = "to" /\ version = latestVersion

\* rollbackVersion == latest, previewVersion == latest
IsCurrentVersion(version, latestVersion) == version = latestVersion

\* the line printed when the target is the current version
NoRollbackNeeded(c, version) ==
    (IF c = "preview" THEN "Warning: " ELSE "")
    \o "Version " \o ToString(version)
    \o " is the current version. No rollback needed."

\* the lines about the target update, common to the two commands
UpdateLines(u) ==
    <<"  Kind: " \o u.Kind, "  Result: " \o u.Result,
      "  Time: " \o formatTime(u.StartTime)>>
    \o (IF u.Message # "" THEN <<"  Message: " \o u.Message>> ELSE <<>>)
    \o <<"">>

\* what runRollback prints between the check and the prompt; "(warning)"
\* stands for the warning sign
RollbackLines(u, version, latestVersion) ==
    <<"Rolling back stack '" \o stack \o "' to version "
      \o ToString(version)>>
    \o UpdateLines(u)
    \o <<"(warning)  WARNING: This will modify your infrastructure!",
         "   Current version: " \o ToString(latestVersion),
         "   Target version:  " \o ToString(version),
         "">>

\* what runPreview prints between the check and PreviewRollback
PreviewLines(u, version) ==
    <<"Previewing rollback to version " \o ToString(version) \o "...">>
    \o UpdateLines(u)

\* the orders in which a range over the keys of a map can visit them
Orderings(S) ==
    {o \in [1..Cardinality(S) -> S] :
        \A i, j \in DOMAIN o : i # j => o[i] # o[j]}

\* the lines of the loop over result.ResourceChanges, in the order o
ChangeLines(changes, o) ==
    [i \in DOMAIN o |-> "  " \o o[i] \o ": " \o ToString(changes[o[i]])]

\* what the commands print after the flow returned a result; "(done)"
\* stands for the check mark
ResultLines(c, result, o) ==
    <<(IF c = "to" THEN "\n(done) " ELSE "\n") \o result.Message>>
    \o (IF result.ResourceChanges # NilMap
           /\ DOMAIN result.ResourceChanges[1] # {}
        THEN <<IF c = "to" THEN "\nResource changes applied:"
               ELSE "\nResource changes:">>
             \o ChangeLines(result.ResourceChanges[1], o)
        ELSE <<>>)
    \o (IF c = "preview"
        THEN <<"\nTo execute this rollback, run:",
               "  pulumi-rollback to --stack " \o stack \o " --version "
               \o ToString(flags.version)>>
        ELSE <<>>)

\* return err from RunE
CmdReturn(err) ==
    /\ cmdErr' = err
    /\ cmdPc' = "returned"

\* rollback.ExecuteRollback(ctx, opts), rollback.PreviewRollback(ctx, opts)
EnterFlow(f) ==
    /\ cmdPc' = "flow"
    /\ cmdErr' = cmdErr
    /\ flow' = f
    /\ pc' = "select"
    /\ opts' = [TargetVersion |-> flags.version, Operator |-> NilOperator]

\* the operator runs "pulumi-rollback to" or "pulumi-rollback preview":
\* the command returns getStackName's error before anything else
RunCommand(c, stackFlag, envStack, version, yes) ==
    /\ cmd = "none"
    /\ flow = "idle"
    /\ invocations < MaxInvocations
    /\ c = "preview" => ~yes
    /\ cmd' = c
    /\ flags' = [version |-> version, yes |-> yes, stack |-> stackFlag,
                 env |-> envStack]
    /\ IF getStackName(stackFlag, envStack).err # NoError
       THEN CmdReturn(getStackName(stackFlag, envStack).err)
       ELSE /\ cmdPc' = "findSelect"
            /\ cmdErr' = NoError
    /\ response' = <<>>
    /\ update' = <<>>
    /\ latest' = 0
    /\ stdout' = <<>>
    /\ cmdCalls' = <<>>
    /\ currentState' = ZeroDeployment
    /\ history' = <<>>
    /\ targetCheckpoint' = ZeroDeployment
    /\ previewResult' = NilMap
    /\ previewErr' = NoError
    /\ upResult' = NilMap
    /\ calls' = <<>>
    /\ out' = <<>>
    /\ ret' = NoReturn
    /\ ctxDone' = FALSE
    /\ before' = [committed |-> committed, live |-> live,
                  hist |-> hist]
    /\ invocations' = invocations + 1
    /\ UNCHANGED <<backendVars, flow, pc, opts, fnVars>>

\* selector.SelectStack of GetStackHistoryWithSelector; wrap is the message
\* the command puts around the error
HistorySelectStack(at, next, wrap, ok) ==
    /\ cmd # "none"
    /\ cmdPc = at
    /\ cmdCalls' = Append(cmdCalls,
                          [op |-> "select", ok |-> ok, arg |-> NoArg,
                           on |-> DefaultSelector])
    /\ IF ok
       THEN /\ cmdPc' = next
            /\ cmdErr' = cmdErr
       ELSE CmdReturn(Wrap(wrap, Wrap("failed to select stack " \o stack,
                                      BackendError("select"))))
    /\ UNCHANGED <<backendVars, flowVars, before, invocations, fnVars,
                   cmd, flags, response, update, latest, stdout>>

FindMsg == "failed to find version " \o ToString(flags.version)
LatestMsg == "failed to get latest version"
HistoryError == Wrap("failed to get stack history", BackendError("history"))

\* history.GetUpdateByVersion: the selection
GetUpdateByVersionSelect(ok) ==
    /\ cmdPc = "findSelect"
    /\ HistorySelectStack("findSelect", "findHistory", FindMsg, ok)

\* history.GetUpdateByVersion: stack.History(ctx, 0, 0), ConvertUpdates and
\* FindUpdateByVersion
GetUpdateByVersionHistory(ok) ==
    /\ cmd # "none"
    /\ cmdPc = "findHistory"
    /\ cmdCalls' = Append(cmdCalls,
                          HistoryCallOn(StackOf(DefaultSelector), ok))
    /\ LET found == FindUpdateByVersion(ConvertUpdates(StackHistory),
                                        flags.version)
       IN IF ~ok
          THEN CmdReturn(Wrap(FindMsg, HistoryError)) /\ update' = update
          ELSE IF found.err # NoError
          THEN CmdReturn(Wrap(FindMsg, found.err)) /\ update' = update
          ELSE /\ update' = found.update
               /\ cmdPc' = "latestSelect"
               /\ cmdErr' = cmdErr
    /\ UNCHANGED <<backendVars, flowVars, before, invocations, fnVars,
                   cmd, flags, response, latest, stdout>>

\* history.GetLatestVersion: the selection
GetLatestVersionSelect(ok) ==
    /\ cmdPc = "latestSelect"
    /\ HistorySelectStack("latestSelect", "latestHistory", LatestMsg, ok)

\* history.GetLatestVersion: stack.History(ctx, 0, 0), ConvertUpdates and
\* GetLatestVersionFromHistory; then the comparison with the target, the
\* lines about the target and, if nothing is left to ask, the flow
GetLatestVersionHistory(ok) ==
    /\ cmd # "none"
    /\ cmdPc = "latestHistory"
    /\ cmdCalls' = Append(cmdCalls,
                          HistoryCallOn(StackOf(DefaultSelector), ok))
    /\ LET l == GetLatestVersionFromHistory(ConvertUpdates(StackHistory),
                                            stack)
       IN IF ~ok \/ l.err # NoError
          THEN /\ CmdReturn(Wrap(LatestMsg,
                                 IF ~ok THEN HistoryError ELSE l.err))
               /\ UNCHANGED <<latest, stdout, flow, pc, opts>>
          ELSE /\ latest' = l.version
               /\ IF IsCurrentVersion(flags.version, l.version)
                  THEN /\ stdout' = Append(stdout,
                                       NoRollbackNeeded(cmd, flags.version))
                       /\ CmdReturn(NoError)
                       /\ UNCHANGED <<flow, pc, opts>>
                  ELSE IF cmd = "preview"
                  THEN /\ stdout' = stdout
                              \o PreviewLines(update[1], flags.version)
                       /\ EnterFlow("preview")
                  ELSE IF flags.yes
                  THEN /\ stdout' = stdout
                              \o RollbackLines(update[1], flags.version,
                                               l.version)
                              \o <<"\nStarting rollback...">>
                       /\ EnterFlow("execute")
                  ELSE /\ stdout' = stdout
                              \o RollbackLines(update[1], flags.version,
                                               l.version)
                              \o <<"Do you want to proceed? [y/N]: ">>
                       /\ cmdPc' = "confirm"
                       /\ cmdErr' = cmdErr
                       /\ UNCHANGED <<flow, pc, opts>>
    /\ UNCHANGED <<backendVars, localVars, upResult, calls, out, ret, ctxDone,
                   before, invocations, fnVars, cmd, flags, response,
                   update>>

\* the confirmation prompt of runRollback: only "y" and "yes" proceed
Confirm(input) ==
    /\ cmd = "to"
    /\ cmdPc = "confirm"
    /\ LET read == ReadString(input, "\n")
           trimmed == TrimSpace(ToLower(read.line))
       IN IF read.err # NoError
          THEN /\ response' = read.line
               /\ CmdReturn(Wrap("failed to read response", read.err))
               /\ UNCHANGED <<stdout, flow, pc, opts>>
          ELSE /\ response' = trimmed
               /\ IF ~Confirmed(trimmed)
                  THEN /\ stdout' = Append(stdout, "Rollback cancelled.")
                       /\ CmdReturn(NoError)
                       /\ UNCHANGED <<flow, pc, opts>>
                  ELSE /\ stdout' = Append(stdout, "\nStarting rollback...")
                       /\ EnterFlow("execute")
    /\ UNCHANGED <<backendVars, localVars, upResult, calls, out, ret, ctxDone,
                   before, invocations, fnVars, cmd, flags, update, latest,
                   cmdCalls>>

\* the flow returned to the command: its error is wrapped and returned, its
\* result is printed
FlowReturned(o) ==
    /\ cmdPc = "flow"
    /\ pc = "done"
    /\ flow' = "idle"
    /\ pc' = "idle"
    /\ IF ret.err # NoError
       THEN /\ CmdReturn(Wrap(IF cmd = "to" THEN "rollback failed"
                              ELSE "preview failed", ret.err))
            /\ stdout' = stdout
            /\ o = <<>>
       ELSE /\ CmdReturn(NoError)
            /\ o \in Orderings(IF ret.result[1].ResourceChanges = NilMap
                               THEN {}
                               ELSE DOMAIN ret.result[1].ResourceChanges[1])
            /\ stdout' = stdout \o ResultLines(cmd, ret.result[1], o)
    /\ UNCHANGED <<backendVars, localVars, opts, upResult, calls, out, ret,
                   ctxDone, before, invocations, fnVars, cmd, flags, response,
                   update,
                   latest, cmdCalls>>

\* the process has ended; the operator may run another command
CmdExit ==
    /\ cmdPc = "returned"
    /\ cmd' = "none"
    /\ cmdPc' = "idle"
    /\ UNCHANGED <<backendVars, flowVars, before, invocations, fnVars,
                   flags, response, update, latest, cmdErr, stdout, cmdCalls>>

\* the steps of a command that is running
CmdStep ==
    \/ \E ok \in BOOLEAN : GetUpdateByVersionSelect(ok)
    \/ \E ok \in BOOLEAN : GetUpdateByVersionHistory(ok)
    \/ \E ok \in BOOLEAN : GetLatestVersionSelect(ok)
    \/ \E ok \in BOOLEAN : GetLatestVersionHistory(ok)
    \/ \E input \in StdinInputs : Confirm(input)
    \/ \E o \in Orderings(OpTypes) \cup Orderings({"create"}) \cup {<<>>} :
           FlowReturned(o)
    \/ CmdExit
    \/ \E ok \in BOOLEAN : PreviewSelectStack(ok)
    \/ \E ok \in BOOLEAN : PreviewExportCurrent(ok)
    \/ \E ok \in BOOLEAN : CheckpointHistory(ok)
    \/ \E ok \in BOOLEAN : CheckpointExport(ok)
    \/ \E ok \in BOOLEAN : PreviewImportTarget(ok)
    \/ \E ok \in BOOLEAN, s \in Summaries : PreviewRunPreview(ok, s)
    \/ PreviewCancelled
    \/ \E ok \in BOOLEAN : PreviewRestoreCurrent(ok)
    \/ \E ok \in BOOLEAN : ExecuteSelectStack(ok)
    \/ \E ok \in BOOLEAN : ExecuteImportTarget(ok)
    \/ \E ok \in BOOLEAN : ExecuteRefresh(ok)
    \/ \E ok \in BOOLEAN, rc \in Summaries : ExecuteApply(ok, rc)

NextCmd ==
    \/ \E c \in {"to", "preview"}, f \in StackFlags, e \in EnvStacks,
          v \in CmdTargets, yes \in BOOLEAN :
           RunCommand(c, f, e, v, yes)
    \/ CmdStep

\* the backend at the start of a command
CmdBackendInit(histories) ==
    /\ committed \in StateDocs
    /\ live \in GoodDocs
    /\ hist \in histories
    /\ recorded = [v \in Versions |-> DocEmptyObject]
    /\ before = [committed |-> committed, live |-> live, hist |-> hist]
    /\ FlowInit
    /\ CmdInit
    /\ FnInit

\* the commands against a stack of the backend
InitCmd == CmdBackendInit(Histories)
SpecCmd == InitCmd /\ [][NextCmd]_vars

\* the commands against a stack whose selector is a test's
InitCmdDouble == CmdBackendInit(DoubleHistories)
SpecCmdDouble == InitCmdDouble /\ [][NextCmd]_vars

\* the version the backend gives the next deployment of the stack
NextVersion == IF hist = <<>> THEN 1 ELSE hist[1].Version + 1

\* somebody else deploys the stack: the backend records a new update, the
\* most recent one, and the stack's state becomes the deployed state, which
\* differs from the state before the deployment
ExternalDeployment(state) ==
    /\ state # committed
    /\ cmd # "none"
    /\ cmdPc # "returned"
    /\ Len(hist) - Len(before.hist) < MaxExternal
    /\ hist' = <<UpdateSummary(NextVersion)>> \o hist
    /\ committed' = state
    /\ live' = state
    /\ recorded' = [v \in DOMAIN recorded \cup {NextVersion} |->
                        IF v = NextVersion THEN state ELSE recorded[v]]
    /\ UNCHANGED <<flowVars, before, invocations, cmdVars, fnVars>>

\* one command, given --stack, run while the stack is being deployed by
\* others
RunCommandOnce(c, version, yes) ==
    /\ invocations = 0
    /\ RunCommand(c, StackName, "", version, yes)

NextExternal ==
    \/ \E c \in {"to", "preview"}, v \in CmdTargets, yes \in BOOLEAN :
           RunCommandOnce(c, v, yes)
    \/ CmdStep
    \/ \E state \in GoodDocs : ExternalDeployment(state)

\* the commands against a stack that others deploy at the same time; the
\* stack starts with its infrastructure in line with its state
InitExternal ==
    /\ InitCmd
    /\ committed \in GoodDocs
    /\ live = committed
SpecExternal == InitExternal /\ [][NextExternal]_vars

TypeOK ==
    /\ committed \in StateDocs
    /\ live \in StateDocs
    /\ flow \in {"idle", "preview", "execute"}
    /\ invocations \in 0..MaxInvocations

(***************************************************************************)
(* Vocabulary of the properties                                            *)
(***************************************************************************)
CallsOf(op) == {i \in DOMAIN calls : calls[i].op = op}
Count(op) == Cardinality(CallsOf(op))
Ops == [i \in DOMAIN calls |-> calls[i].op]
IsPrefix(s, t) == Len(s) <= Len(t) /\ \A i \in DOMAIN s : s[i] = t[i]

PreviewReturned == flow = "preview" /\ pc = "done"
ExecuteReturned == flow = "execute" /\ pc = "done"

\* the i-th import call of the invocation exists and has the given outcome
NthImport(n, ok) ==
    \E i \in CallsOf("import") :
        /\ Cardinality({j \in CallsOf("import") : j <= i}) = n
        /\ calls[i].ok = ok

ImportTargetSucceeded == NthImport(1, TRUE)
ImportTargetFailed == NthImport(1, FALSE)
RestoreSucceeded == NthImport(2, TRUE)
RestoreFailed == NthImport(2, FALSE)
RunPreviewSucceeded == \E i \in CallsOf("preview") : calls[i].ok
RunPreviewFailed == \E i \in CallsOf("preview") : ~calls[i].ok

RestoreWarning ==
    "Warning: failed to restore current state: " \o BackendError("import")[1]
Warned == \E i \in DOMAIN out : out[i] = RestoreWarning

TargetInHistory == \E i \in DOMAIN hist : hist[i].Version = opts.TargetVersion

(***************************************************************************)
(* C1: in PreviewRollback, whenever the first import (the target) returned *)
(* success, the flow returns after exactly two import calls: the target    *)
(* checkpoint first, the exported current state second, whatever the       *)
(* outcomes of the preview and of the second import.                       *)
(***************************************************************************)
C1_ImportTwice ==
    (PreviewReturned /\ ImportTargetSucceeded) =>
        /\ Count("import") = 2
        /\ Ops = <<"select", "export", "history", "export", "import",
                   "preview", "import">>
        /\ calls[5].arg = targetCheckpoint.Deployment
        /\ calls[7].arg = currentState.Deployment

C1_Witness ==
    /\ PreviewReturned
    /\ ImportTargetSucceeded
    /\ RunPreviewFailed
    /\ RestoreFailed
    /\ Count("import") = 2

(***************************************************************************)
(* C2: the snapshot GetCheckpointForVersion returns for a version of the   *)
(* history is the state recorded for that version, never the current       *)
(* committed state standing in for it.                                     *)
(***************************************************************************)
C2_CheckpointIsRecordedState ==
    (pc = "import") =>
        targetCheckpoint.Deployment = recorded[opts.TargetVersion]

(***************************************************************************)
(* C3: after an ExecuteRollback in which import, refresh and up all        *)
(* succeeded, committed state and live infrastructure are the snapshot     *)
(* recorded for the target version.                                        *)
(***************************************************************************)
C3_RevertedToTarget ==
    (ExecuteReturned /\ ret.err = NoError) =>
        /\ committed = recorded[opts.TargetVersion]
        /\ live = recorded[opts.TargetVersion]

(***************************************************************************)
(* C4, as claimed: whenever PreviewRollback returns an error, the          *)
(* committed state is the one from before the invocation, except when the  *)
(* restore import failed (and then the warning was written).               *)
(***************************************************************************)
C4_ErrorLeavesStateUnlessRestoreFailed ==
    (PreviewReturned /\ ret.err # NoError) =>
        /\ ~RestoreFailed => committed = before.committed
        /\ RestoreFailed => Warned

(***************************************************************************)
(* C4, amended: whenever PreviewRollback returns an error, the committed   *)
(* state is the one from before the invocation, except when an import      *)
(* itself failed: the target import (state indeterminate, no restore is    *)
(* attempted) or the restore import (and then the warning was written).    *)
(***************************************************************************)
C4_ErrorLeavesStateUnlessImportFailed ==
    (PreviewReturned /\ ret.err # NoError) =>
        /\ (~ImportTargetFailed /\ ~RestoreFailed) =>
               committed = before.committed
        /\ RestoreFailed => Warned
        /\ ImportTargetFailed => Count("import") = 1

C4_Witness ==
    /\ PreviewReturned
    /\ ret.err # NoError
    /\ RunPreviewFailed
    /\ RestoreSucceeded
    /\ committed = before.committed

(***************************************************************************)
(* C5: when the preview fails after the target import succeeded, the       *)
(* restore import is still made, and the flow returns the preview's error  *)
(* wrapped, with no result, whether the restore succeeds or fails; a       *)
(* failed restore shows only as the warning on the output.                 *)
(***************************************************************************)
C5_PreviewErrorReturned ==
    (PreviewReturned /\ RunPreviewFailed) =>
        /\ Count("import") = 2
        /\ calls[Len(calls)].op = "import"
        /\ ret.result = <<>>
        /\ ret.err = Wrap("preview failed", BackendError("preview"))
        /\ RestoreFailed <=> Warned

C5_Witness ==
    /\ PreviewReturned
    /\ RunPreviewFailed
    /\ RestoreFailed
    /\ Warned
    /\ ret.err = <<"preview failed", "backend: preview">>

(***************************************************************************)
(* C6: when the preview succeeds and the restore import fails, the flow    *)
(* returns no error and a result with Success set whose resource changes   *)
(* are the kinds and counts of the preview's change summary, and the       *)
(* restore warning is on the output.                                       *)
(***************************************************************************)
C6_RestoreFailureIsWarning ==
    (PreviewReturned /\ RunPreviewSucceeded /\ RestoreFailed) =>
        /\ ret.err = NoError
        /\ Len(ret.result) = 1
        /\ ret.result[1].Success
        /\ Entries(ret.result[1].ResourceChanges) = Entries(previewResult)
        /\ Warned

C6_Witness ==
    /\ PreviewReturned
    /\ RunPreviewSucceeded
    /\ RestoreFailed
    /\ previewResult = <<[create |-> 1]>>
    /\ ret.result[1].ResourceChanges = <<[create |-> 1]>>
    /\ Warned

(***************************************************************************)
(* C7: when selecting the stack, exporting the current state or fetching   *)
(* the checkpoint fails in PreviewRollback, the flow returns the wrapped   *)
(* error at once, having called neither import nor preview.                *)
(***************************************************************************)
PreImportMessages ==
    {"failed to select stack", "failed to export current state", CheckpointMsg}

PreImportFailure ==
    \/ \E i \in DOMAIN calls :
          calls[i].op \in {"select", "export", "history"} /\ ~calls[i].ok
    \/ Count("history") = 1 /\ ~TargetInHistory
    \/ /\ \E i \in CallsOf("export") : i > 2 /\ calls[i].ok
       /\ ~ValidateDeployment(UntypedDeployment(before.committed))

C7_EarlyFailureCallsNothing ==
    (PreviewReturned /\ PreImportFailure) =>
        /\ Count("import") = 0
        /\ Count("preview") = 0
        /\ ret.result = <<>>
        /\ ret.err # NoError
        /\ ret.err[1] \in PreImportMessages
        /\ \A i \in DOMAIN calls : i < Len(calls) => calls[i].ok
        /\ committed = before.committed

C7_Witness ==
    /\ PreviewReturned
    /\ Ops = <<"select", "export", "history", "export">>
    /\ ~calls[4].ok
    /\ ret.err = <<CheckpointMsg, "failed to export deployment",
                   "backend: export">>

(***************************************************************************)
(* C8: a failure of the target import is returned as an error of a kind    *)
(* of its own, distinct from the kind of the errors returned for failures  *)
(* before any import (selection, export, history, version not found,       *)
(* parse).                                                                 *)
(***************************************************************************)
PreImportErrors ==
    { Wrap("failed to select stack", BackendError("select")),
      Wrap("failed to export current state", BackendError("export")),
      Wrap(CheckpointMsg, Wrap("failed to get history", BackendError("history"))),
      Wrap(CheckpointMsg, NewError("version " \o VersionText
                                   \o " not found in history")),
      Wrap(CheckpointMsg, Wrap("failed to export deployment",
                               BackendError("export"))),
      Wrap(CheckpointMsg, Wrap("failed to parse deployment",
                               NewError("json: cannot unmarshal"))) }

C8_ImportFailureIsDistinctKind ==
    (PreviewReturned /\ ImportTargetFailed) =>
        /\ ret.err # NoError
        /\ \A e \in PreImportErrors : ErrorType(ret.err) # ErrorType(e)

(***************************************************************************)
(* C9: when the history holds no record of the target version, checkpoint  *)
(* retrieval fails with the version-not-found error and the flow, preview  *)
(* or execute, returns an error without any import, refresh or up call.    *)
(***************************************************************************)
VersionNotFoundError ==
    Wrap(CheckpointMsg,
         NewError("version " \o VersionText \o " not found in history"))

C9_MissingVersionMutatesNothing ==
    (flow # "idle" /\ ~TargetInHistory) =>
        /\ Count("import") = 0
        /\ Count("refresh") = 0
        /\ Count("up") = 0
        /\ committed = before.committed
        /\ live = before.live
        /\ pc = "done" =>
              /\ ret.err # NoError
              /\ ret.result = <<>>
              /\ (\E i \in CallsOf("history") : calls[i].ok) =>
                     ret.err = VersionNotFoundError

C9_Witness ==
    /\ ExecuteReturned
    /\ hist = <<UpdateSummary(1)>>
    /\ opts.TargetVersion = MaxVersion + 1
    /\ ret.err = VersionNotFoundError
    /\ Count("import") = 0

(***************************************************************************)
(* C10: ExecuteRollback makes its backend calls in the order select,       *)
(* history and export (the checkpoint), import, refresh, up; each call is  *)
(* made only after the previous one succeeded; import is called at most    *)
(* once, so no restoring import follows a failed refresh or up.            *)
(***************************************************************************)
ExecuteOrder == <<"select", "history", "export", "import", "refresh", "up">>

C10_ExecuteOrder ==
    (flow = "execute") =>
        /\ IsPrefix(Ops, ExecuteOrder)
        /\ \A i \in DOMAIN calls : i < Len(calls) => calls[i].ok
        /\ Count("import") <= 1
        /\ pc = "done" =>
              (ret.err # NoError <=> ~calls[Len(calls)].ok
                                     \/ Len(calls) < Len(ExecuteOrder))

C10_Witness ==
    /\ ExecuteReturned
    /\ Ops = <<"select", "history", "export", "import", "refresh">>
    /\ ~calls[5].ok
    /\ Count("import") = 1

(***************************************************************************)
(* C11: in ExecuteRollback a failure of refresh or up, after the target    *)
(* import succeeded, is returned as an error of a kind of its own (fatal,  *)
(* needing manual follow-up), distinct from the kind of the errors         *)
(* returned for failures before the import.                                *)
(***************************************************************************)
ExecutePreImportErrors ==
    { Wrap("failed to select stack", BackendError("select")),
      Wrap(CheckpointMsg, Wrap("failed to get history", BackendError("history"))),
      Wrap(CheckpointMsg, NewError("version " \o VersionText
                                   \o " not found in history")),
      Wrap(CheckpointMsg, Wrap("failed to export deployment",
                               BackendError("export"))),
      Wrap(CheckpointMsg, Wrap("failed to parse deployment",
                               NewError("json: cannot unmarshal"))) }

RefreshOrApplyFailed ==
    \E i \in CallsOf("refresh") \cup CallsOf("up") : ~calls[i].ok

C11_PostImportFailureIsFatalKind ==
    (ExecuteReturned /\ RefreshOrApplyFailed) =>
        /\ ret.err # NoError
        /\ \A e \in ExecutePreImportErrors : ErrorType(ret.err) # ErrorType(e)

\* the greatest version among the updates of a non-empty history
LatestOf(h) ==
    CHOOSE v \in {h[i].Version : i \in DOMAIN h} :
        \A i \in DOMAIN h : h[i].Version <= v

\* the import, refresh and up calls of a log of backend calls
MutationCalls(log) ==
    {i \in DOMAIN log : log[i].op \in {"import", "refresh", "up"}}

\* the command fetched the history for the update and for the latest version
HistoryFetchedTwice ==
    Cardinality({i \in DOMAIN cmdCalls :
                    cmdCalls[i].op = "history" /\ cmdCalls[i].ok}) = 2

\* the command has not asked for confirmation nor called a flow, and the
\* backend is as it was when the command started
NothingDone ==
    /\ cmdPc \notin {"confirm", "flow"}
    /\ flow = "idle"
    /\ calls = <<>>
    /\ ret = NoReturn
    /\ MutationCalls(calls) = {}
    /\ MutationCalls(cmdCalls) = {}
    /\ committed = before.committed
    /\ live = before.live

\* the command returned without error after the one informational line
InformationalNoOp ==
    /\ cmdErr = NoError
    /\ stdout = <<NoRollbackNeeded(cmd, flags.version)>>

(***************************************************************************)
(* C12: when "to" is run with the latest version of the stack's history as *)
(* target, ExecuteRollback is never entered: no import, refresh or up is   *)
(* called, no confirmation is asked and the backend is unchanged; once the *)
(* history was fetched the command returns no error and has printed only   *)
(* that the version is the current one.                                    *)
(***************************************************************************)
C12_LatestTargetIsNoOp ==
    (cmd = "to" /\ hist # <<>> /\ flags.version = LatestOf(hist)) =>
        /\ NothingDone
        /\ (cmdPc = "returned" /\ HistoryFetchedTwice) => InformationalNoOp

C12_Witness ==
    /\ cmd = "to"
    /\ Len(hist) > 1
    /\ flags.version = LatestOf(hist)
    /\ cmdPc = "returned"
    /\ HistoryFetchedTwice
    /\ latest = flags.version
    /\ InformationalNoOp
    /\ NothingDone

\* "to --version 5" against the history h: the latest version is found to
\* be 5 and the command is an informational no-op
NoOpAtFive(h) ==
    (cmd = "to" /\ hist = h /\ flags.version = 5) =>
        /\ latest \in {0, 5}
        /\ NothingDone
        /\ (cmdPc = "returned" /\ HistoryFetchedTwice) => InformationalNoOp

OldestFirst125 == <<UpdateSummary(1), UpdateSummary(2), UpdateSummary(5)>>
NewestFirst521 == <<UpdateSummary(5), UpdateSummary(2), UpdateSummary(1)>>

(***************************************************************************)
(* C13 as stated: for the history returned as [1, 2, 5] and target 5 the   *)
(* latest version is found to be 5 and the command is a no-op.             *)
(***************************************************************************)
C13_OldestFirstHistoryIsNoOp == NoOpAtFive(OldestFirst125)

(***************************************************************************)
(* C13: for the history returned most recent first as [5, 2, 1] and target *)
(* 5 the latest version is found to be 5, the command prints that the      *)
(* version is the current one, returns no error and makes no import,       *)
(* refresh or up call.                                                     *)
(***************************************************************************)
C13_NewestFirstHistoryIsNoOp == NoOpAtFive(NewestFirst521)

C13_Witness ==
    /\ cmd = "to"
    /\ hist = NewestFirst521
    /\ flags.version = 5
    /\ cmdPc = "returned"
    /\ HistoryFetchedTwice
    /\ latest = 5
    /\ InformationalNoOp
    /\ NothingDone

(***************************************************************************)
(* C14: neither flow retries: select, history, preview, refresh and up are *)
(* each called at most once per invocation, and a failed backend call is   *)
(* the last call of the invocation, except that a failed preview is        *)
(* followed by exactly the one restore import.                             *)
(***************************************************************************)
C14_NoRetryNoCallAfterFailure ==
    (flow # "idle") =>
        /\ \A op \in {"select", "history", "preview", "refresh", "up"} :
              Count(op) <= 1
        /\ \A i \in DOMAIN calls :
              ~calls[i].ok =>
                 \/ /\ i = Len(calls)
                    /\ pc = "done" \/ (calls[i].op = "preview" /\ pc = "restore")
                 \/ /\ flow = "preview"
                    /\ calls[i].op = "preview"
                    /\ Len(calls) = i + 1
                    /\ calls[i + 1].op = "import"
                    /\ calls[i + 1].arg = currentState.Deployment
                    /\ pc = "done"

C14_Witness ==
    /\ ExecuteReturned
    /\ Ops = <<"select", "history">>
    /\ ~calls[2].ok
    /\ ret.err = <<CheckpointMsg, "failed to get history", "backend: history">>

(***************************************************************************)
(* C15: when the caller's cancellation fires while the preview is          *)
(* outstanding, PreviewRollback still makes the restore import of the      *)
(* snapshot it exported at the start before it returns, as on its other    *)
(* exits; when that import succeeds the committed state is the one from    *)
(* before the invocation.                                                  *)
(***************************************************************************)
C15_CancellationStillRestores ==
    (PreviewReturned /\ ctxDone) =>
        /\ Count("import") = 2
        /\ calls[Len(calls)].op = "import"
        /\ calls[Len(calls)].arg = before.committed
        /\ RestoreSucceeded => committed = before.committed
        /\ ret.err = Wrap("preview failed", previewErr)

C15_Witness ==
    /\ PreviewReturned
    /\ ctxDone
    /\ RestoreSucceeded
    /\ committed = before.committed
    /\ ret.result = <<>>

(***************************************************************************)
(* C16: PreviewRollback never calls refresh or up, so it leaves the live   *)
(* infrastructure alone; its only mutating backend call is import.         *)
(***************************************************************************)
C16_PreviewNeverAppliesOrRefreshes ==
    (flow = "preview") =>
        /\ Count("refresh") = 0
        /\ Count("up") = 0
        /\ \A i \in DOMAIN calls :
              calls[i].op \in {"select", "export", "history", "import", "preview"}
        /\ live = before.live
        /\ Count("import") = 0 => committed = before.committed

C16_Witness ==
    /\ PreviewReturned
    /\ ret.err = NoError
    /\ Count("import") = 2
    /\ Count("preview") = 1
    /\ live = before.live

(***************************************************************************)
(* C19: the result of a successful ExecuteRollback always carries a        *)
(* mapping as its resource changes: the empty mapping when up reported no  *)
(* resource-change summary, otherwise the same kinds with the same counts. *)
(***************************************************************************)
C19_ResourceChangesIsMapping ==
    (ExecuteReturned /\ ret.err = NoError) =>
        /\ Len(ret.result) = 1
        /\ ret.result[1].ResourceChanges # NilMap
        /\ Entries(ret.result[1].ResourceChanges) = Entries(upResult)
        /\ upResult = NilMap => ret.result[1].ResourceChanges = <<EmptyMap>>

C19_Witness ==
    /\ ExecuteReturned
    /\ ret.err = NoError
    /\ upResult = NilMap
    /\ ret.result[1].ResourceChanges = <<EmptyMap>>

(***************************************************************************)
(* C17: FindUpdateByVersion succeeds exactly when some update of the       *)
(* history has the version, and then returns an update of the history with *)
(* that version and no error; otherwise it returns no update and the       *)
(* not-found error.  VersionExistsInHistory is true in exactly the same    *)
(* cases.  Both fail on the empty history.                                 *)
(***************************************************************************)
HasApplied(fn) == fnOut # <<>> /\ fnOut[1].fn = fn
FnResult == fnOut[1].result
SomeUpdateHasVersion ==
    \E i \in DOMAIN fnIn.history : fnIn.history[i].Version = fnIn.version

C17_FindSucceedsIffPresent ==
    /\ HasApplied("FindUpdateByVersion") =>
          /\ FnResult.err = NoError <=> SomeUpdateHasVersion
          /\ FnResult.err = NoError =>
                /\ Len(FnResult.update) = 1
                /\ FnResult.update[1].Version = fnIn.version
                /\ \E i \in DOMAIN fnIn.history :
                      FnResult.update[1] = fnIn.history[i]
          /\ FnResult.err # NoError =>
                /\ FnResult.update = <<>>
                /\ FnResult.err = <<"version " \o ToString(fnIn.version)
                                    \o " not found in stack history">>
          /\ fnIn.history = <<>> => FnResult.err # NoError
    /\ HasApplied("VersionExistsInHistory") =>
          /\ FnResult <=> \E i \in DOMAIN fnIn.summaries :
                              fnIn.summaries[i].Version = fnIn.version
          /\ fnIn.summaries = <<>> => ~FnResult

C17_Witness ==
    /\ HasApplied("FindUpdateByVersion")
    /\ Len(fnIn.history) = 3
    /\ fnIn.history[1].Version = 5
    /\ fnIn.history[2].Version = 1
    /\ fnIn.history[3].Version = 1
    /\ fnIn.version = 1
    /\ FnResult.err = NoError
    /\ FnResult.update[1] = fnIn.history[2]

(***************************************************************************)
(* C18: GetLatestVersionFromHistory returns the version of the first       *)
(* update of a non-empty history and no error; on the empty history it     *)
(* returns the empty-history error and the zero version.                   *)
(***************************************************************************)
C18_LatestIsFirst ==
    HasApplied("GetLatestVersionFromHistory") =>
        /\ fnIn.history # <<>> =>
              /\ FnResult.err = NoError
              /\ FnResult.version = fnIn.history[1].Version
        /\ fnIn.history = <<>> =>
              /\ FnResult.err = <<"no deployment history found for stack "
                                  \o StackName>>
              /\ FnResult.version = 0

C18_Witness ==
    /\ HasApplied("GetLatestVersionFromHistory")
    /\ Len(fnIn.history) = 3
    /\ fnIn.history[1].Version = 2
    /\ fnIn.history[3].Version = 5
    /\ FnResult.version = 2
    /\ FnResult.err = NoError

(***************************************************************************)
(* C20: ValidateDeployment accepts a snapshot exactly when the document is *)
(* a structured object: one well-formed JSON value that is an object.      *)
(***************************************************************************)
IsStructuredObject(doc) ==
    /\ ParseValue(doc, 1) = Len(doc) + 1
    /\ doc[1] = "{"

C20_AcceptsExactlyObjects ==
    HasApplied("ValidateDeployment") =>
        (FnResult <=> IsStructuredObject(fnIn.deployment.Deployment))

\* w occurs in the text s
Contains(s, w) ==
    \E i \in 1..(Len(s) - Len(w) + 1) : SubSeq(s, i, i + Len(w) - 1) = w

\* the words by which a message names a backend operation: the verb of the
\* interface method and, for Up, also the word apply
OperationNames(op) ==
    CASE op = "select" -> {"select"}
      [] op = "export" -> {"export"}
      [] op = "history" -> {"history"}
      [] op = "import" -> {"import"}
      [] op = "preview" -> {"preview"}
      [] op = "refresh" -> {"refresh"}
      [] op = "up" -> {"up", "apply"}
      [] OTHER -> {}

\* the message names the operation
NamesOperation(msg, op) == \E w \in OperationNames(op) : Contains(msg, w)

\* err ends with the error of a failed backend call of this invocation and
\* carries, in front of it, a message that names that call's operation
WrapsFailedCall(err) ==
    \E i \in DOMAIN calls :
        /\ ~calls[i].ok
        /\ Len(err) >= 2
        /\ <<err[Len(err)]>> = BackendError(calls[i].op)
        /\ \E j \in 1..(Len(err) - 1) : NamesOperation(err[j], calls[i].op)

\* err is the error of the failed Up of this invocation under the message of
\* ExecuteRollback, which names the rollback and not the operation
WrapsFailedUp(err) ==
    /\ calls # <<>>
    /\ calls[Len(calls)].op = "up"
    /\ ~calls[Len(calls)].ok
    /\ err = Wrap("rollback failed", BackendError("up"))
    /\ ~NamesOperation("rollback failed", "up")

\* an outcome with Success = true and no error
ReturnedOutcome ==
    /\ Len(ret.result) = 1
    /\ ret.result[1].Success
    /\ ret.err = NoError

\* the errors of GetCheckpointForVersion that come from no backend failure
CheckpointRefusals ==
    {Wrap(CheckpointMsg,
          NewError("version " \o VersionText \o " not found in history")),
     Wrap(CheckpointMsg,
          Wrap("failed to parse deployment", NewError("json: cannot unmarshal")))}

(***************************************************************************)
(* C21 as stated: every return of a flow is either an outcome with         *)
(* success = true and no error, or no outcome and an error that wraps the  *)
(* error of the failed backend call under a message naming the operation.  *)
(***************************************************************************)
C21_ReturnIsOutcomeOrBackendError ==
    (PreviewReturned \/ ExecuteReturned) =>
        \/ ReturnedOutcome
        \/ ret.result = <<>> /\ WrapsFailedCall(ret.err)

(***************************************************************************)
(* C21: every return of a flow is exactly one of: an outcome with          *)
(* success = true and no error; no outcome and an error that wraps the     *)
(* error of the failed backend call under a message naming the operation;  *)
(* for a failed Up, no outcome and the call's error under "rollback        *)
(* failed"; or, when the history and export of checkpoint retrieval        *)
(* succeeded, no outcome and the version-not-found or parse error of the   *)
(* retrieval under "failed to get checkpoint for version N".               *)
(***************************************************************************)
C21_ReturnIsOutcomeOrWrappedError ==
    (PreviewReturned \/ ExecuteReturned) =>
        \/ ReturnedOutcome
        \/ ret.result = <<>> /\ WrapsFailedCall(ret.err)
        \/ ret.result = <<>> /\ WrapsFailedUp(ret.err)
        \/ /\ ret.result = <<>>
           /\ ret.err \in CheckpointRefusals
           /\ \A i \in DOMAIN calls : calls[i].ok

C21_Witness ==
    /\ ExecuteReturned
    /\ ret.result = <<>>
    /\ ret.err = Wrap("refresh failed", BackendError("refresh"))
    /\ ~calls[Len(calls)].ok
    /\ calls[Len(calls)].op = "refresh"

\* the step from log to next appended one History(0, 0) call
FetchedIn(log, next) ==
    /\ Len(next) = Len(log) + 1
    /\ next[Len(next)].op = "history"
    /\ next[Len(next)].arg = [pageSize |-> 0, page |-> 0]

\* the call appended to log succeeded and returned the backend's history
FetchedAll(next) ==
    /\ next[Len(next)].ok
    /\ next[Len(next)].res = hist

(***************************************************************************)
(* C22: the history is never cached.  Each of the three places that need   *)
(* it (the version lookup and the latest-version lookup of package         *)
(* history, and checkpoint retrieval) makes its own History call with      *)
(* pageSize 0 and page 0, and what it decides is decided on the history    *)
(* the backend has at that call, whatever an earlier call returned.        *)
(***************************************************************************)
C22_HistoryNeverCached ==
    [][/\ (cmdPc = "findHistory" /\ cmdPc' # "findHistory") =>
            /\ FetchedIn(cmdCalls, cmdCalls')
            /\ FetchedAll(cmdCalls') =>
                   (cmdPc' = "latestSelect"
                        <=> \E i \in DOMAIN hist :
                                hist[i].Version = flags.version)
       /\ (cmdPc = "latestHistory" /\ cmdPc' # "latestHistory") =>
            /\ FetchedIn(cmdCalls, cmdCalls')
            /\ (FetchedAll(cmdCalls') /\ hist # <<>>) =>
                   latest' = hist[1].Version
       /\ (pc = "history" /\ pc' # "history") =>
            /\ FetchedIn(calls, calls')
            /\ FetchedAll(calls') => history' = hist
      ]_vars

\* the backend's history changed between the two fetches of a command and
\* the second fetch returned the changed history
C22_Witness ==
    /\ Len(cmdCalls) = 4
    /\ cmdCalls[2].op = "history" /\ cmdCalls[2].ok
    /\ cmdCalls[4].op = "history" /\ cmdCalls[4].ok
    /\ cmdCalls[4].res # cmdCalls[2].res
    /\ cmdCalls[4].res = hist
    /\ latest = hist[1].Version
    /\ latest # cmdCalls[2].res[1].Version

\* the calls of the running invocation that are imports, in order
ImportCalls == SelectSeq(calls, LAMBDA c : c.op = "import")

\* the calls of the running invocation that are successful exports, in order
ExportsDone == SelectSeq(calls, LAMBDA c : c.op = "export" /\ c.ok)

(***************************************************************************)
(* C23: in the Preview flow both exports come before the first import; the *)
(* first import is given the document the export of checkpoint retrieval   *)
(* returned and the restore import the document the first export (of the   *)
(* current state) returned.  Hence, when nobody else deployed the stack    *)
(* meanwhile and the restore succeeded, the committed state after the flow *)
(* is the committed state before it.                                       *)
(***************************************************************************)
C23_RestoreImportsExportedState ==
    (flow = "preview" /\ ImportCalls # <<>>) =>
        /\ Len(ExportsDone) = 2
        /\ \A i, j \in DOMAIN calls :
               (calls[i].op = "export" /\ calls[j].op = "import") => i < j
        /\ ImportCalls[1].arg = ExportsDone[2].res
        /\ Len(ImportCalls) = 2 => ImportCalls[2].arg = ExportsDone[1].res
        /\ (pc = "done" /\ Len(ImportCalls) = 2 /\ ImportCalls[2].ok
            /\ hist = before.hist) => committed = before.committed

\* somebody else deployed between the two exports, so that the two imports
\* were given different documents, and the restore succeeded
C23_Witness ==
    /\ PreviewReturned
    /\ Len(ImportCalls) = 2
    /\ ImportCalls[1].ok
    /\ ImportCalls[2].ok
    /\ ImportCalls[1].arg # ImportCalls[2].arg
    /\ ImportCalls[2].arg = ExportsDone[1].res
    /\ committed = ExportsDone[1].res

PreviewCalls ==
    <<"select", "export", "history", "export", "import", "preview", "import">>

(***************************************************************************)
(* C24: when every backend call returns, an invoked flow eventually        *)
(* returns to the caller; PreviewRollback makes at most 7 backend calls    *)
(* (select, export, history, export, import, preview, import) and          *)
(* ExecuteRollback at most 6 (select, history, export, import, refresh,    *)
(* up), each a prefix of that sequence.                                    *)
(***************************************************************************)
C24_FlowsReturn ==
    /\ [](flow = "preview" => /\ Len(calls) <= 7
                              /\ IsPrefix(Ops, PreviewCalls))
    /\ [](flow = "execute" => /\ Len(calls) <= 6
                              /\ IsPrefix(Ops, ExecuteOrder))
    /\ (flow # "idle") ~> (pc = "done")

C24_Witness ==
    /\ PreviewReturned
    /\ Ops = PreviewCalls
    /\ ret.err = NoError

(***************************************************************************)
(* C25: in an invocation of a flow the first backend call, and no other,   *)
(* is SelectStack; it is made on the operator of the request, or on the    *)
(* package's default operator when the request has none, and every later   *)
(* call (export, history, import, preview, refresh, up) is made on the     *)
(* handle that SelectStack call returned.                                  *)
(***************************************************************************)
C25_OneSelectOneHandle ==
    (flow # "idle" /\ calls # <<>>) =>
        /\ calls[1].op = "select"
        /\ calls[1].on = IF opts.Operator = NilOperator THEN DefaultOperator
                         ELSE opts.Operator
        /\ \A i \in 2..Len(calls) :
               /\ calls[i].op # "select"
               /\ calls[1].ok
               /\ calls[i].on = StackOf(calls[1].on)

C25_Witness ==
    /\ ExecuteReturned
    /\ opts.Operator = MockOperator
    /\ Ops = ExecuteOrder
    /\ calls[1].on = MockOperator
    /\ \A i \in 2..6 : calls[i].on = StackOf(MockOperator)

\* the timestamps of the model that time.Parse accepts as RFC 3339
ValidTimes == {"2024-01-15T10:00:00Z", "2024-01-15T10:05:00Z"}

(***************************************************************************)
(* C26: ConvertUpdates returns one record per summary, in the same order,  *)
(* with the summary's version, kind, result and message; the record's      *)
(* ResourceChanges is a map, never nil, with the summary's entries and     *)
(* none when the summary has no changes; a start or end time that is       *)
(* absent, empty or not RFC 3339 gives the zero time, a valid one its      *)
(* time.                                                                   *)
(***************************************************************************)
C26_ConvertKeepsRecords ==
    HasApplied("ConvertUpdates") =>
        /\ Len(FnResult) = Len(fnIn.summaries)
        /\ \A i \in DOMAIN fnIn.summaries :
             LET u == fnIn.summaries[i]
                 info == FnResult[i]
             IN /\ info.Version = u.Version
                /\ info.Kind = u.Kind
                /\ info.Result = u.Result
                /\ info.Message = u.Message
                /\ info.ResourceChanges # NilMap
                /\ Entries(info.ResourceChanges) = Entries(u.ResourceChanges)
                /\ u.StartTime \notin ValidTimes => info.StartTime = ZeroTime
                /\ u.StartTime \in ValidTimes =>
                       info.StartTime = <<2024, 1, 15, 10, 0, 0>>
                /\ (u.EndTime = <<>> \/ u.EndTime[1] \notin ValidTimes) =>
                       info.EndTime = ZeroTime
                /\ (u.EndTime # <<>> /\ u.EndTime[1] \in ValidTimes) =>
                       info.EndTime = <<2024, 1, 15, 10, 5, 0>>

C26_Witness ==
    /\ HasApplied("ConvertUpdates")
    /\ Len(fnIn.summaries) = 2
    /\ fnIn.summaries[1].Version # fnIn.summaries[2].Version
    /\ fnIn.summaries[1].StartTime = "invalid-date"
    /\ fnIn.summaries[1].ResourceChanges = NilMap
    /\ fnIn.summaries[2].EndTime = <<"">>
    /\ FnResult[1].StartTime = ZeroTime
    /\ FnResult[1].ResourceChanges = <<EmptyMap>>
    /\ FnResult[2].EndTime = ZeroTime
    /\ FnResult[2].Version = fnIn.summaries[2].Version

(***************************************************************************)
(* C27: when PreviewRollback returns a result, its ResourceChanges is a    *)
(* map, never nil, with exactly the change kinds and counts of the change  *)
(* summary stack.Preview returned: the empty map when that summary is nil  *)
(* or empty.                                                               *)
(***************************************************************************)
C27_PreviewChangesAreSummary ==
    (PreviewReturned /\ ret.err = NoError) =>
        /\ RunPreviewSucceeded
        /\ ret.result[1].ResourceChanges # NilMap
        /\ Entries(ret.result[1].ResourceChanges) = Entries(previewResult)
        /\ (previewResult = NilMap \/ previewResult = <<EmptyMap>>) =>
               ret.result[1].ResourceChanges = <<EmptyMap>>

C27_Witness ==
    /\ PreviewReturned
    /\ ret.err = NoError
    /\ previewResult = <<[create |-> 1, delete |-> 2]>>
    /\ ret.result[1].ResourceChanges = <<[create |-> 1, delete |-> 2]>>

\* the command made its four history-package calls and all succeeded
LookupsSucceeded ==
    /\ [i \in DOMAIN cmdCalls |-> cmdCalls[i].op]
           = <<"select", "history", "select", "history">>
    /\ \A i \in DOMAIN cmdCalls : cmdCalls[i].ok

\* the first fetched history has the target, the second, fetched after it,
\* has a latest version other than the target
ChecksPassed ==
    /\ LookupsSucceeded
    /\ \E i \in DOMAIN cmdCalls[2].res :
           cmdCalls[2].res[i].Version = flags.version
    /\ update # <<>>
    /\ update[1].Version = flags.version
    /\ cmdCalls[4].res # <<>>
    /\ latest = cmdCalls[4].res[1].Version
    /\ latest # flags.version

Prompt == "Do you want to proceed? [y/N]: "
Starting == "\nStarting rollback..."

\* --yes was passed and nothing was asked, or the prompt was printed after
\* the checks and answered with y or yes
Proceeded ==
    /\ stdout # <<>>
    /\ \/ /\ flags.yes
          /\ response = <<>>
          /\ \A i \in DOMAIN stdout : stdout[i] # Prompt
       \/ /\ ~flags.yes
          /\ response \in {<<"y">>, <<"y", "e", "s">>}
          /\ \E i \in DOMAIN stdout :
                 /\ stdout[i] = Prompt
                 /\ i < Len(stdout)
                 /\ stdout[i + 1] = Starting

(***************************************************************************)
(* C28: the "to" command calls ExecuteRollback only after the target was   *)
(* found in a fetched history, then the latest version was fetched and is  *)
(* another version, then the operator answered y or yes or had passed      *)
(* --yes.  Otherwise (a selection or history error, a missing version, the *)
(* target being the latest version, any other answer, an unreadable        *)
(* answer) the command ends without a single call of the flow: no import,  *)
(* refresh or up.                                                          *)
(***************************************************************************)
C28_ExecuteOnlyAfterChecks ==
    cmd = "to" =>
        /\ MutationCalls(cmdCalls) = {}
        /\ (flow # "idle" \/ cmdPc = "flow" \/ calls # <<>>) =>
               (ChecksPassed /\ Proceeded)
        /\ (cmdPc = "returned" /\ ~(ChecksPassed /\ Proceeded)) =>
               /\ calls = <<>>
               /\ ret = NoReturn
               /\ committed = before.committed
               /\ live = before.live

\* the operator answered " yes" and the rollback was executed
C28_Witness ==
    /\ cmd = "to"
    /\ cmdPc = "returned"
    /\ ~flags.yes
    /\ response = <<"y", "e", "s">>
    /\ ChecksPassed
    /\ Ops = ExecuteOrder
    /\ cmdErr = NoError

\* the successful History calls of a log, in order
HistoryFetches(log) == SelectSeq(log, LAMBDA c : c.op = "history" /\ c.ok)

\* the history the retrieval of the running flow fetched, if it fetched one
RetrievedHistories ==
    {calls[i].res : i \in {j \in CallsOf("history") : calls[j].ok}}

\* h is g with deployments recorded after g was fetched
ExtendsHistory(h, g) ==
    /\ Len(g) <= Len(h)
    /\ SubSeq(h, Len(h) - Len(g) + 1, Len(h)) = g

\* the three fetches of the command did not all return the same history
FetchesDiffer ==
    \/ HistoryFetches(cmdCalls)[1].res # HistoryFetches(cmdCalls)[2].res
    \/ \E h \in RetrievedHistories : h # HistoryFetches(cmdCalls)[2].res

\* the decisions disagree: the command's checks passed, and the retrieval
\* reports the version as not found or the target is the latest version
DecisionsDisagree ==
    \/ ret.err = VersionNotFoundError
    \/ flags.version = hist[1].Version
    \/ \E h \in RetrievedHistories : flags.version = h[1].Version

\* each of the three needs made its own fetch
FetchedThreeTimes ==
    /\ Len(HistoryFetches(cmdCalls)) = 2
    /\ Count("history") = 1

\* with an unchanged history the three fetches returned the same history
\* and the decisions agree
AgreeWhenUnchanged ==
    hist = before.hist =>
        /\ ~DecisionsDisagree
        /\ ~FetchesDiffer

(***************************************************************************)
(* C29 as stated: a "to" or "preview" command that reaches checkpoint      *)
(* retrieval has fetched the history three times; with an unchanged        *)
(* history the three decisions agree; a deployment recorded between the    *)
(* fetches makes them disagree: the retrieval reports the version as not   *)
(* found or the target is the latest version.  The last clause speaks of   *)
(* what can happen; it is stated here of the runs in which the fetches     *)
(* differ, and C29_DecisionsAgreeDespiteDeployments states that it happens *)
(* in none of them.                                                        *)
(***************************************************************************)
C29_DeploymentMakesDecisionsDisagree ==
    (cmd \in {"to", "preview"} /\ Count("history") > 0) =>
        /\ FetchedThreeTimes
        /\ AgreeWhenUnchanged
        /\ (pc = "done" /\ FetchesDiffer) => DecisionsDisagree

(***************************************************************************)
(* C29: a "to" or "preview" command that reaches checkpoint retrieval has  *)
(* fetched the history three times, each by a call of its own: for the     *)
(* version lookup, for the latest version and for the retrieval.  With an  *)
(* unchanged history the three fetches returned the same history.  A       *)
(* deployment recorded between the fetches adds a record in front of the   *)
(* history, so a later fetch extends an earlier one, and also then the     *)
(* retrieval does not report the version as not found and the target is    *)
(* not the latest version, of the fetched history or of the backend's.     *)
(***************************************************************************)
C29_DecisionsAgreeDespiteDeployments ==
    (cmd \in {"to", "preview"} /\ Count("history") > 0) =>
        /\ FetchedThreeTimes
        /\ AgreeWhenUnchanged
        /\ ~DecisionsDisagree
        /\ ExtendsHistory(HistoryFetches(cmdCalls)[2].res,
                          HistoryFetches(cmdCalls)[1].res)
        /\ \A h \in RetrievedHistories :
               /\ ExtendsHistory(h, HistoryFetches(cmdCalls)[2].res)
               /\ \E i \in DOMAIN h : h[i].Version = flags.version

\* a deployment was recorded after the command's checks and before the
\* retrieval: the retrieval fetched a history with one more record, found
\* the version in it, and the flow returned its outcome
C29_Witness ==
    /\ cmd \in {"to", "preview"}
    /\ Count("history") = 1
    /\ Len(HistoryFetches(cmdCalls)) = 2
    /\ HistoryFetches(cmdCalls)[1].res = HistoryFetches(cmdCalls)[2].res
    /\ \E h \in RetrievedHistories :
           /\ Len(h) = Len(HistoryFetches(cmdCalls)[2].res) + 1
           /\ h[1].Version # latest
    /\ latest # flags.version
    /\ pc = "done"
    /\ ret.err = NoError

(***************************************************************************)
(* C30: when "preview" is run with the latest version of the stack's       *)
(* history as target, PreviewRollback is never entered: no export, import  *)
(* or preview call is made, by the command or by a flow; once the history  *)
(* was fetched the command returns no error and has printed only the       *)
(* warning that the version is the current one.                            *)
(***************************************************************************)
C30_PreviewOfLatestIsNoOp ==
    (cmd = "preview" /\ hist # <<>> /\ flags.version = LatestOf(hist)) =>
        /\ flow = "idle"
        /\ cmdPc # "flow"
        /\ \A op \in {"export", "import", "preview"} :
               /\ Count(op) = 0
               /\ \A i \in DOMAIN cmdCalls : cmdCalls[i].op # op
        /\ (cmdPc = "returned" /\ HistoryFetchedTwice) =>
               /\ cmdErr = NoError
               /\ stdout = <<"Warning: Version " \o ToString(flags.version)
                             \o " is the current version. No rollback needed.">>

C30_Witness ==
    /\ cmd = "preview"
    /\ Len(hist) > 1
    /\ flags.version = LatestOf(hist)
    /\ cmdPc = "returned"
    /\ HistoryFetchedTwice
    /\ cmdErr = NoError
    /\ Len(stdout) = 1
    /\ calls = <<>>

=============================================================================
